---- MODULE Spec2Model ----
(***************************************************************************)
(* shopware-store-mcp: the Store API client (StoreApiClient) and the tool  *)
(* handlers registered on the MCP server, as one state machine.            *)
(*                                                                         *)
(* One tool invocation runs at a time.  A handler is a chain of steps: the *)
(* Invoke step runs the handler up to its first await (the request is      *)
(* appended to calls), every further step is the arrival of the upstream   *)
(* response to the pending request, continued up to the next await or to   *)
(* the handler's return / throw.                                           *)
(*                                                                         *)
(* A JavaScript string is a sequence of symbols; a symbol is one character *)
(* or an opaque fixed text ("Forbidden").  Texts whose characters the code *)
(* inspects (identifiers, response bodies) are spelled character by        *)
(* character.  null and undefined are the one value Null.                  *)
(***************************************************************************)
EXTENDS Integers, Sequences, FiniteSets, TLC

VARIABLES
    tool,     \* name of the handler being run, "none" when idle
    args,     \* the validated arguments of the invocation
    pc,       \* position of the handler: "idle", an await point, or "done"
    calls,    \* requests issued so far by this invocation (fetch calls)
    resps,    \* history: the response fetch delivered to each call
    loc,      \* the handler's local variables that live across awaits
    result,   \* what the handler returned or threw
    others,   \* the invocations not running now: suspended at an await or ended
    transports,   \* index.ts: the Map of active transports by session id
    connections,  \* history: each SSE connection made, "open" or "closed"
    posted        \* history: the last POST /message and how it was answered

\* the running invocation, the server's other invocations, the HTTP transport
invocation == <<tool, args, pc, calls, resps, loc, result>>
transport == <<transports, connections, posted>>
vars == <<tool, args, pc, calls, resps, loc, result, others, transports,
          connections, posted>>

-----------------------------------------------------------------------------
(* Strings *)

Null == <<"<null>">>
Str(tok) == <<tok>>
EmptyStr == <<>>

\* !v for a string-or-null value
Falsy(v) == v = Null \/ v = EmptyStr
Truthy(v) == ~Falsy(v)
\* a ?? b
Coalesce(a, b) == IF a = Null THEN b ELSE a
\* a || b
OrElse(a, b) == IF Falsy(a) THEN b ELSE a

\* String.prototype.includes
Includes(s, sub) ==
    \E i \in 1..(Len(s) - Len(sub) + 1) : SubSeq(s, i, i + Len(sub) - 1) = sub

DigitSym == <<"0", "1", "2", "3", "4", "5", "6", "7", "8", "9">>

\* `${n}` for a natural number
RECURSIVE Digits(_)
Digits(n) == IF n < 10 THEN <<DigitSym[n + 1]>>
             ELSE Digits(n \div 10) \o <<DigitSym[(n % 10) + 1]>>

RECURSIVE Rep(_, _)
Rep(s, n) == IF n = 0 THEN <<>> ELSE s \o Rep(s, n - 1)

-----------------------------------------------------------------------------
(* Upstream responses (what fetch delivers) *)

NoJson == [nojson |-> TRUE]
BadJson == [badjson |-> TRUE]
\* the object {}
EmptyObj == [empty |-> TRUE]

\* obj.f for a string-valued (or absent) field, and "f" in obj
Has(obj, f) == f \in DOMAIN obj
Get(obj, f) == IF Has(obj, f) THEN obj[f] ELSE Null

\* fetch rejects: no HTTP response at all
NetworkFailure ==
    [kind |-> "network", status |-> 0, statusText |-> EmptyStr,
     bodyText |-> EmptyStr, json |-> NoJson]

HttpError(st, stText, body) ==
    [kind |-> "http", status |-> st, statusText |-> stText,
     bodyText |-> body, json |-> NoJson]

\* 200 with a JSON body j
JsonOk(j) ==
    [kind |-> "http", status |-> 200, statusText |-> Str("OK"),
     bodyText |-> EmptyStr, json |-> j]

NoContent ==
    [kind |-> "http", status |-> 204, statusText |-> Str("No Content"),
     bodyText |-> EmptyStr, json |-> NoJson]

\* 200 whose body is not JSON
Malformed ==
    [kind |-> "http", status |-> 200, statusText |-> Str("OK"),
     bodyText |-> <<"<", "h", "t", "m", "l", ">">>, json |-> BadJson]

\* an error body that happens to spell 403 ("code 4031")
Body4031 == <<"c", "o", "d", "e", " ", "4", "0", "3", "1">>
ErrBodies == {EmptyStr, Body4031}

Failures ==
    {NetworkFailure, Malformed}
    \cup {HttpError(403, Str("Forbidden"), b) : b \in ErrBodies}
    \cup {HttpError(500, Str("Internal Server Error"), b) : b \in ErrBodies}

\* the failures tried on a secondary (best-effort) fetch
SubFailures ==
    {NetworkFailure, HttpError(500, Str("Internal Server Error"), Body4031)}

-----------------------------------------------------------------------------
(* StoreApiClient *)

DefaultLanguageId == Str("2fbb5fe2e29a4d70aa5854ce7ce3e20b")

\* the headers without the || "" defaults
HeadersRaw(credentials) ==
    [contentType |-> Str("application/json"),
     accept |-> Str("application/json"),
     swAccessKey |-> credentials.swAccessKey,
     swContextToken |-> credentials.swContextToken,
     swLanguageId |-> credentials.swLanguageId]

\* get headers()
Headers(credentials) ==
    [contentType |-> Str("application/json"),
     accept |-> Str("application/json"),
     swAccessKey |-> OrElse(credentials.swAccessKey, EmptyStr),
     swContextToken |-> OrElse(credentials.swContextToken, EmptyStr),
     swLanguageId |-> OrElse(credentials.swLanguageId, EmptyStr)]

\* response.ok
ResponseOk(resp) == resp.status >= 200 /\ resp.status <= 299

\* the message without the numeric status
ErrorMessageNoStatus(resp) ==
    Str("Store API Request failed: ") \o resp.statusText \o Str(" - ") \o resp.bodyText

\* the message of the Error thrown on a non-success status
ErrorMessage(resp) ==
    Str("Store API Request failed: ") \o Digits(resp.status) \o Str(" ")
        \o resp.statusText \o Str(" - ") \o resp.bodyText

Threw(msg) == [threw |-> TRUE, message |-> msg, value |-> NoJson]
Value(v) == [threw |-> FALSE, message |-> EmptyStr, value |-> v]

\* request() without the branch for 204
RequestParsingAll(resp) ==
    IF resp.kind = "network" THEN Threw(Str("fetch failed"))
    ELSE IF ~ResponseOk(resp) THEN Threw(ErrorMessage(resp))
    ELSE IF resp.json \in {BadJson, NoJson} THEN Threw(Str("Unexpected end of JSON input"))
    ELSE Value(resp.json)

\* request(): the outcome of one call given what fetch delivered
Request(resp) ==
    IF resp.kind = "network" THEN Threw(Str("fetch failed"))
    ELSE IF ~ResponseOk(resp) THEN Threw(ErrorMessage(resp))
    ELSE IF resp.status = 204 THEN Value(EmptyObj)
    ELSE IF resp.json = BadJson THEN Threw(Str("Unexpected token in JSON"))
    ELSE Value(resp.json)

\* Strings of slashes: s without one trailing / one leading slash
\* (replace(/\/$/, "") and replace(/^\//, ""))
DropTrailingSlash(s) ==
    IF Len(s) > 0 /\ s[Len(s)] = "/" THEN SubSeq(s, 1, Len(s) - 1) ELSE s
\* the path left as it is
KeepLeadingSlash(s) == s
DropLeadingSlash(s) == IF Len(s) > 0 /\ s[1] = "/" THEN Tail(s) ELSE s

\* get baseUrl()
BaseUrl(credentials) == DropTrailingSlash(OrElse(credentials.shopUrl, EmptyStr))

StoreApi == <<"/", "s", "t", "o", "r", "e", "-", "a", "p", "i", "/">>

\* `${this.baseUrl}/store-api/${path.replace(/^\//, "")}`
Url(credentials, path) == BaseUrl(credentials) \o StoreApi \o DropLeadingSlash(path)

\* a request as handed to fetch by post() / get()
Call(credentials, method, path, body) ==
    [method |-> method, path |-> path, url |-> Url(credentials, path),
     headers |-> Headers(credentials), body |-> body]

NoBody == [nobody |-> TRUE]
Post(credentials, path, body) == Call(credentials, "POST", path, body)
HttpGet(credentials, path) == Call(credentials, "GET", path, NoBody)

HexSyms == {"0", "1", "2", "3", "4", "5", "6", "7", "8", "9",
            "a", "b", "c", "d", "e", "f"}
UpperHexSyms == {"A", "B", "C", "D", "E", "F"}

\* [0-9a-f] with the i flag dropped
HexClassCaseSensitive(c) == c \in HexSyms

\* [0-9a-f] under the i flag
HexClass(c) == c \in HexSyms \cup UpperHexSyms

DashAt == {9, 14, 19, 24}

\* /^[0-9a-f]{8}-[0-9a-f]{4}-[0-9a-f]{4}-[0-9a-f]{4}-[0-9a-f]{12}$/i .test(s)
UuidRegexTest(s) ==
    /\ Len(s) = 36
    /\ \A i \in 1..Len(s) : IF i \in DashAt THEN s[i] = "-" ELSE HexClass(s[i])

\* /^[0-9a-f]{32}$/i .test(s)
SimpleUuidRegexTest(s) ==
    /\ Len(s) = 32
    /\ \A i \in 1..Len(s) : HexClass(s[i])

\* the search body resolveProductId posts
ResolveBody(idOrSku) ==
    [filter |-> <<[type |-> "equals", field |-> "productNumber",
                   value |-> idOrSku]>>,
     includes |-> "product:id",
     limit |-> 1]

\* elements of a response object as a sequence; absent elements is <<>>
Elements(obj) == IF Has(obj, "elements") THEN obj.elements ELSE <<>>

\* resolveProductId taking the last element instead of the first
ResolveResultLast(out) ==
    IF ~out.threw /\ Len(Elements(out.value)) > 0
    THEN Get(Elements(out.value)[Len(Elements(out.value))], "id")
    ELSE Null

\* resolveProductId answering with a placeholder id instead of null
ResolveResultPlaceholder(out) ==
    IF ~out.threw /\ Len(Elements(out.value)) > 0
    THEN Get(Elements(out.value)[1], "id")
    ELSE Str("unknown")

\* resolveProductId after its search call: the first element's id, else null
ResolveResult(out) ==
    IF ~out.threw /\ Len(Elements(out.value)) > 0
    THEN Get(Elements(out.value)[1], "id")
    ELSE Null

-----------------------------------------------------------------------------
(* Tool invocations: arguments and results *)

ShopUrl == <<"h", "t", "t", "p", "s", ":", "/", "/", "s", "h", "o", "p", "/">>

NoCreds ==
    [swAccessKey |-> Null, swContextToken |-> Null, swLanguageId |-> Null,
     shopUrl |-> Null]
FullCreds ==
    [swAccessKey |-> Str("SWSC-KEY"), swContextToken |-> Str("ctx-token"),
     swLanguageId |-> Str("lang-de"), shopUrl |-> ShopUrl]

\* the StoreCredentialsSchema part of the arguments
CredSet == {NoCreds, FullCreds}

\* the client kept in one variable shared by the handlers: the credentials
\* are those of the invocation that set it last
ClientShared(a, languageId) ==
    LET latest == IF others = <<>> THEN a ELSE others[1].args
    IN [swAccessKey |-> latest.creds.swAccessKey,
        swContextToken |-> latest.creds.swContextToken,
        swLanguageId |-> languageId,
        shopUrl |-> latest.creds.shopUrl]

\* new StoreApiClient({...}) with the language id the handler passes
Client(a, languageId) ==
    [swAccessKey |-> a.creds.swAccessKey,
     swContextToken |-> a.creds.swContextToken,
     swLanguageId |-> languageId,
     shopUrl |-> a.creds.shopUrl]

\* swLanguageId: args.swLanguageId || "2fbb..."
LanguageOrDefault(a) == OrElse(a.creds.swLanguageId, DefaultLanguageId)

NoData == [nodata |-> TRUE]
NoLoc == [noloc |-> TRUE]
NoArgs == [noargs |-> TRUE]
Pending == [kind |-> "pending"]

\* return { isError, content: [{type: "text", text}] }; an absent isError
\* is the protocol's default, false.  data is the object that was
\* JSON.stringify'd into text, when the text is JSON.
Returned(isError, text, data) ==
    [kind |-> "returned", isError |-> isError, text |-> text, data |-> data]

\* the handler's promise rejects with an Error of this message
Thrown(message) == [kind |-> "thrown", message |-> message]

\* error.message && error.message.includes("403")
MessageHas403(message) == Truthy(message) /\ Includes(message, <<"4", "0", "3">>)

Min(a, b) == IF a < b THEN a ELSE b

Idle == pc = "idle"

\* the handler starts: runs to its first await with request c issued
Begin(t, a, at, c, l) ==
    /\ Idle
    /\ tool' = t
    /\ args' = a
    /\ pc' = at
    /\ calls' = <<c>>
    /\ resps' = <<>>
    /\ loc' = l
    /\ result' = Pending
    /\ UNCHANGED <<others, transport>>

\* the handler ends at this response
End(resp, res) ==
    /\ pc' = "done"
    /\ resps' = Append(resps, resp)
    /\ result' = res
    /\ UNCHANGED <<tool, args, calls, loc, others, transport>>

\* the handler goes on to its next await with request c issued
Continue(resp, at, c, l) ==
    /\ pc' = at
    /\ resps' = Append(resps, resp)
    /\ calls' = Append(calls, c)
    /\ loc' = l
    /\ UNCHANGED <<tool, args, result, others, transport>>

At(t, at) == tool = t /\ pc = at

-----------------------------------------------------------------------------
(* cart tools *)

ProductA == Rep(<<"a", "1">>, 16)
ProductB == Rep(<<"b", "2">>, 16)

LineItem(id) == [referencedId |-> id, label |-> Str("Tee"), quantity |-> 2]

CartJsons ==
    {EmptyObj,
     [totalPrice |-> 0],
     [lineItems |-> <<>>, totalPrice |-> 0],
     [lineItems |-> <<LineItem(ProductA)>>, totalPrice |-> 20],
     [lineItems |-> <<LineItem(ProductA), LineItem(ProductB)>>, totalPrice |-> 40]}

CartResponses == Failures \cup {NoContent} \cup {JsonOk(c) : c \in CartJsons}

LineItems(cart) == IF Has(cart, "lineItems") THEN cart.lineItems ELSE <<>>

CartGetArgs == [creds : CredSet]

CartLoginText ==
    Str("Unable to access cart. The user might not be logged in or the session is invalid. Please ask the user to log in.")

\* store_cart_get, to its await of GET checkout/cart
CartGetInvoke ==
    /\ Idle
    /\ \E a \in CartGetArgs :
        Begin("store_cart_get", a, "cart",
              HttpGet(Client(a, DefaultLanguageId), Str("checkout/cart")), NoLoc)

\* store_cart_get, what it returns for the outcome of its call
CartGetResult(out) ==
    IF out.threw
    THEN IF MessageHas403(out.message)
         THEN Returned(FALSE, CartLoginText, NoData)
         ELSE Thrown(out.message)
    ELSE IF Len(LineItems(out.value)) = 0
         THEN Returned(FALSE, Str("The cart is currently empty."), NoData)
         ELSE Returned(FALSE, Str("cart-json"),
                       [results |-> LineItems(out.value),
                        total |-> out.value.totalPrice])

CartGetResponse ==
    /\ At("store_cart_get", "cart")
    /\ \E resp \in CartResponses : End(resp, CartGetResult(Request(resp)))

Quantities == {1, 3}
CartAddArgs == [creds : CredSet, productId : {ProductA}, quantity : Quantities]

CartAddLoginText ==
    Str("Unable to add to cart. The user is not logged in. Please ask the user to log in first.")

CartAddBody(a) ==
    [items |-> <<[type |-> "product", referencedId |-> a.productId,
                  quantity |-> a.quantity]>>]

CartAddInvoke ==
    /\ Idle
    /\ \E a \in CartAddArgs :
        Begin("store_cart_add", a, "line-item",
              Post(Client(a, DefaultLanguageId), Str("checkout/cart/line-item"),
                   CartAddBody(a)), NoLoc)

\* response.lineItems.find(...) on a response without lineItems
FindOfUndefined == Str("Cannot read properties of undefined (reading 'find')")

CartAddFailed(message) ==
    IF MessageHas403(message)
    THEN Returned(FALSE, CartAddLoginText, NoData)
    ELSE Returned(TRUE, Str("Failed to add product to cart. Error: ") \o message,
                  NoData)

CartAddResult(a, out) ==
    IF out.threw THEN CartAddFailed(out.message)
    ELSE IF ~Has(out.value, "lineItems") THEN CartAddFailed(FindOfUndefined)
    ELSE Returned(FALSE,
                  Str("Successfully added ") \o Digits(a.quantity)
                      \o Str("x product to cart. New cart total: ")
                      \o Digits(out.value.totalPrice),
                  NoData)

CartAddResponse ==
    /\ At("store_cart_add", "line-item")
    /\ \E resp \in CartResponses : End(resp, CartAddResult(args, Request(resp)))

-----------------------------------------------------------------------------
(* order tools *)

\* z.number().max(3) on limit
LimitCap == 3
\* smallest limit and page tried, largest page and upstream total tried
MinNumber == 1
MaxPage == 3
MaxTotal == 7

Limits == (0 - MinNumber)..LimitCap
Pages == (0 - MinNumber)..MaxPage
Totals == 0..MaxTotal

Order(n) == [id |-> Str("order") \o Digits(n), orderNumber |-> 10000 + n]

OrderPages == {<<>>, <<Order(1)>>, <<Order(1), Order(2)>>}

\* response.orders, with and without a total
OrdersObjs ==
    {[elements |-> e] : e \in OrderPages}
    \cup {[elements |-> e, total |-> t] : e \in OrderPages, t \in Totals}

OrderListJsons == {EmptyObj} \cup {[orders |-> o] : o \in OrdersObjs}

OrderListResponses ==
    Failures \cup {NoContent} \cup {JsonOk(j) : j \in OrderListJsons}

OrderListArgs == [creds : CredSet, limit : Limits, page : Pages]

OrderListLoginText ==
    Str("The user is currently NOT logged in. Please ask the user to log in to view their order history.")

OrderListBody(a) ==
    [limit |-> Min(a.limit, LimitCap), page |-> a.page,
     sort |-> <<[field |-> "orderDateTime", order |-> "DESC"]>>,
     associations |-> {"lineItems", "stateMachineState"}]

OrderListInvoke ==
    /\ Idle
    /\ \E a \in OrderListArgs :
        Begin("store_order_list", a, "order",
              Post(Client(a, DefaultLanguageId), Str("order"), OrderListBody(a)),
              NoLoc)

\* response.orders?.elements || []
OrdersList(response) ==
    IF Has(response, "orders") THEN Elements(response.orders) ELSE <<>>

\* response.orders?.total ?? dflt
OrdersTotalOr(response, dflt) ==
    IF Has(response, "orders") /\ Has(response.orders, "total")
    THEN response.orders.total
    ELSE dflt

\* the pagination block with >= in place of >
PaginationInclusive(reportedTotal, countedTotal, page, limit) ==
    [total |-> reportedTotal, page |-> page, limit |-> limit,
     hasNextPage |-> countedTotal >= page * limit]

\* the pagination block taking the cap for the limit, whatever was asked
PaginationOfCap(reportedTotal, countedTotal, page, limit) ==
    [total |-> reportedTotal, page |-> page, limit |-> LimitCap,
     hasNextPage |-> countedTotal > page * LimitCap]

\* the pagination block of a listing result
Pagination(reportedTotal, countedTotal, page, limit) ==
    [total |-> reportedTotal, page |-> page, limit |-> limit,
     hasNextPage |-> countedTotal > page * limit]

OrderListResult(a, out) ==
    IF out.threw
    THEN IF MessageHas403(out.message)
         THEN Returned(FALSE, OrderListLoginText, NoData)
         ELSE Thrown(out.message)
    ELSE IF Len(OrdersList(out.value)) = 0 /\ a.page = 1
         THEN Returned(FALSE, Str("No orders found for this customer."), NoData)
         ELSE Returned(FALSE, Str("orders-json"),
                       [results |-> OrdersList(out.value),
                        pagination |->
                            Pagination(OrdersTotalOr(out.value,
                                                     Len(OrdersList(out.value))),
                                       OrdersTotalOr(out.value, 0),
                                       a.page, a.limit)])

OrderListResponse ==
    /\ At("store_order_list", "order")
    /\ \E resp \in OrderListResponses :
           End(resp, OrderListResult(args, Request(resp)))

Comments == {Null, Str("please gift-wrap")}
OrderCreateArgs == [creds : CredSet, comment : Comments]

OrderCreateLoginText ==
    Str("The user is NOT logged in. You cannot place an order until the user logs in. Please ask them to log in.")

OrderCreateJsons == {EmptyObj, [orderNumber |-> Str("10001"), id |-> Str("order1")]}

OrderCreateResponses ==
    Failures \cup {NoContent} \cup {JsonOk(j) : j \in OrderCreateJsons}

OrderCreateInvoke ==
    /\ Idle
    /\ \E a \in OrderCreateArgs :
        Begin("store_order_create", a, "checkout-order",
              Post(Client(a, DefaultLanguageId), Str("checkout/order"),
                   [customerComment |-> a.comment]),
              NoLoc)

\* `${x}` of a string-or-undefined value
Show(v) == IF v = Null THEN Str("undefined") ELSE v

OrderCreateResult(out) ==
    IF out.threw
    THEN IF MessageHas403(out.message)
         THEN Returned(FALSE, OrderCreateLoginText, NoData)
         ELSE Returned(TRUE,
                       Str("Failed to place order. Ensure you have items in cart and are logged in. Error: ")
                           \o out.message,
                       NoData)
    ELSE Returned(FALSE,
                  Str("Success! Order placed. Order Number: ")
                      \o Show(Get(out.value, "orderNumber")) \o Str(" (ID: ")
                      \o Show(Get(out.value, "id")) \o Str(")"),
                  NoData)

OrderCreateResponse ==
    /\ At("store_order_create", "checkout-order")
    /\ \E resp \in OrderCreateResponses : End(resp, OrderCreateResult(Request(resp)))

-----------------------------------------------------------------------------
(* product search and category product listing *)

ParentP == Str("parent-P")
ParentQ == Str("parent-Q")

\* an element of a listing response.  rating is ratingAverage as a set:
\* {} when the product has none.
Item(name, tname, parentId, rating) ==
    [id |-> Null, name |-> name, tname |-> tname, parentId |-> parentId,
     rating |-> rating]

Named == Item(Str("Tee"), Null, Null, {})
TranslatedOnly == Item(Null, Str("T-Shirt"), Null, {})
Orphan == Item(Null, Null, Null, {})
VariantOfP == Item(Null, Null, ParentP, {})
VariantOfQ == Item(Null, Null, ParentQ, {})
EmptyNamedOfP == Item(EmptyStr, Null, ParentP, {})

\* upstream identifiers of the elements of a page, by position
WithIds(page) ==
    [i \in 1..Len(page) |-> [page[i] EXCEPT !.id = Str("item-") \o Digits(i)]]

NamePages ==
    {<<>>, <<Named>>, <<TranslatedOnly>>, <<Orphan>>, <<VariantOfP>>,
     <<VariantOfQ>>, <<EmptyNamedOfP>>,
     <<VariantOfP, VariantOfP>>, <<VariantOfP, VariantOfQ>>,
     <<VariantOfQ, VariantOfP>>, <<Named, VariantOfP>>, <<Orphan, VariantOfQ>>,
     <<EmptyNamedOfP, TranslatedOnly>>}

Ratings == {{}, {3}, {5}}
Rated(r) == Item(Str("Tee"), Null, Null, r)
RatingPages == {<<Rated(a), Rated(b), Rated(c)>> : a \in Ratings, b \in Ratings, c \in Ratings}

\* the search response: elements, with or without a total
SearchJsons ==
    {EmptyObj}
    \cup {[elements |-> WithIds(p)] : p \in NamePages \cup RatingPages}
    \cup {[elements |-> WithIds(<<Named, TranslatedOnly>>), total |-> t] : t \in Totals}

SearchResponses == Failures \cup {NoContent} \cup {JsonOk(j) : j \in SearchJsons}

ParentNames ==
    {<<Null, Null>>, <<Str("Blue Shirt"), Null>>, <<Null, Str("Blaues Hemd")>>,
     <<EmptyStr, Str("Blaues Hemd")>>}

Parent(id, nm) == [id |-> id, name |-> nm[1], tname |-> nm[2]]

\* the answer to the batched parent fetch
ParentJsons ==
    {EmptyObj, [elements |-> <<>>]}
    \cup {[elements |-> <<Parent(ParentP, nm)>>] : nm \in ParentNames}
    \cup {[elements |-> <<Parent(ParentQ, <<Str("Red Cap"), Null>>)>>]}
    \cup {[elements |-> <<Parent(ParentP, nm), Parent(ParentQ, <<Str("Red Cap"), Null>>)>>] :
              nm \in {<<Null, Null>>, <<Str("Blue Shirt"), Null>>}}

ParentResponses == SubFailures \cup {JsonOk(j) : j \in ParentJsons}

Symbols == {Str("EUR")}
ContextJsons == {EmptyObj} \cup {[currencySymbol |-> c] : c \in Symbols}
ContextResponses == SubFailures \cup {JsonOk(j) : j \in ContextJsons}

\* the items whose name the code takes to be missing and that have a parent
NeedsParent(p) == Falsy(p.name) /\ Falsy(p.tname) /\ Truthy(p.parentId)

\* the parentIds collected without the Set: one per item, repeats kept
RECURSIVE ParentIdsFromAll(_, _)
ParentIdsFromAll(elements, acc) ==
    IF elements = <<>> THEN acc
    ELSE ParentIdsFromAll(Tail(elements),
                          IF NeedsParent(Head(elements))
                          THEN Append(acc, Head(elements).parentId) ELSE acc)

\* [...new Set(elements.filter(...).map(p => p.parentId))]
RECURSIVE ParentIdsFrom(_, _)
ParentIdsFrom(elements, acc) ==
    IF elements = <<>> THEN acc
    ELSE LET p == Head(elements)
             seen == \E i \in 1..Len(acc) : acc[i] = p.parentId
         IN ParentIdsFrom(Tail(elements),
                          IF NeedsParent(p) /\ ~seen
                          THEN Append(acc, p.parentId) ELSE acc)

ParentIds(elements) == ParentIdsFrom(elements, <<>>)

ParentsBody(parentIds) == [ids |-> parentIds, limit |-> Len(parentIds)]

\* the parents Map after parentResponse.elements.forEach(p => parents.set(p.id, p)):
\* the elements of the parent response, none when the fetch failed
ParentsOf(out) == IF out.threw THEN <<>> ELSE Elements(out.value)

ParentsHas(parents, id) == \E i \in 1..Len(parents) : parents[i].id = id

\* parents.get(id): the entry set last
ParentsGet(parents, id) ==
    parents[CHOOSE i \in 1..Len(parents) :
                /\ parents[i].id = id
                /\ \A j \in (i + 1)..Len(parents) : parents[j].id # id]

\* the display name without the parent lookup
DisplayNameOwn(p, parents) == Coalesce(Coalesce(p.name, p.tname), Str("Unknown"))

\* the display name of a listed item
DisplayName(p, parents) ==
    LET own == Coalesce(p.name, p.tname)
        name == IF Falsy(own) /\ Truthy(p.parentId) /\ ParentsHas(parents, p.parentId)
                THEN LET parent == ParentsGet(parents, p.parentId)
                     IN Coalesce(parent.name, parent.tname)
                ELSE own
    IN Coalesce(name, Str("Unknown"))

Absent == "<absent>"
SortKeys == {"relevance", "price-asc", "price-desc", "rating", "rating-desc",
             "rating-asc", "name-asc", "name-desc"}
RatingSorts == {"rating", "rating-desc", "rating-asc"}
Prices == {{}, {0}, {50}}

DefaultSearch ==
    [creds |-> FullCreds, term |-> Str("shirt"), limit |-> 3, page |-> 1,
     sort |-> Absent, minPrice |-> {}, maxPrice |-> {}]

\* the arguments tried: each of credentials, paging, sort and price range
\* varied with the others at their defaults
SearchArgs ==
    {[DefaultSearch EXCEPT !.creds = c] : c \in CredSet}
    \cup {[DefaultSearch EXCEPT !.limit = l, !.page = pg] : l \in Limits, pg \in Pages}
    \cup {[DefaultSearch EXCEPT !.sort = k] : k \in SortKeys}
    \cup {[DefaultSearch EXCEPT !.minPrice = lo, !.maxPrice = hi] : lo \in Prices, hi \in Prices}

\* the switch with every key passed through as it is
SortOrderAsGiven(sort) == IF sort = "<absent>" THEN {} ELSE {sort}

\* the switch on args.sort: the order sent upstream, {} for none
SortOrder(sort) ==
    CASE sort = "price-asc" -> {"price-asc"}
      [] sort = "price-desc" -> {"price-desc"}
      [] sort = "name-asc" -> {"name-asc"}
      [] sort = "name-desc" -> {"name-desc"}
      [] sort \in {"rating", "rating-desc"} -> {"ratingAverage-desc"}
      [] sort = "rating-asc" -> {"ratingAverage-asc"}
      [] OTHER -> {}

\* the filters array with a bound of 0 taken for no bound
PriceFilterTruthy(minPrice, maxPrice) ==
    LET given(b) == b # {} /\ b # {0}
    IN IF given(minPrice) \/ given(maxPrice)
       THEN {<<[type |-> "range", field |-> "price",
                parameters |-> [gte |-> IF given(minPrice) THEN minPrice ELSE {},
                                lte |-> IF given(maxPrice) THEN maxPrice ELSE {}]]>>}
       ELSE {}

\* the filters array, {} when it is sent as undefined
PriceFilter(minPrice, maxPrice) ==
    IF minPrice # {} \/ maxPrice # {}
    THEN {<<[type |-> "range", field |-> "price",
             parameters |-> [gte |-> minPrice, lte |-> maxPrice]]>>}
    ELSE {}

SearchBody(a) ==
    [search |-> a.term, limit |-> Min(a.limit, LimitCap), page |-> a.page,
     order |-> SortOrder(a.sort), filter |-> PriceFilter(a.minPrice, a.maxPrice)]

\* the currency symbol taking the error text when the context fetch failed
CurrencySymbolOrMessage(out) ==
    IF out.threw THEN out.message ELSE OrElse(Get(out.value, "currencySymbol"), EmptyStr)

\* contextRes.currency?.symbol || "", "" when the context fetch failed
CurrencySymbol(out) ==
    IF out.threw THEN EmptyStr ELSE OrElse(Get(out.value, "currencySymbol"), EmptyStr)

SearchInvoke ==
    /\ Idle
    /\ \E a \in SearchArgs :
        Begin("store_product_search", a, "context",
              HttpGet(Client(a, LanguageOrDefault(a)), Str("context")), NoLoc)

SearchContextResponse ==
    /\ At("store_product_search", "context")
    /\ \E resp \in ContextResponses :
           Continue(resp, "search",
                    Post(Client(args, LanguageOrDefault(args)), Str("search"),
                         SearchBody(args)),
                    [currencySymbol |-> CurrencySymbol(Request(resp))])

\* response.total ?? dflt
TotalOr(response, dflt) == IF Has(response, "total") THEN response.total ELSE dflt

\* the products of the search result, in the order they are returned
SearchProducts(a, elements, parents, currencySymbol) ==
    [i \in 1..Len(elements) |->
        [id |-> elements[i].id,
         name |-> DisplayName(elements[i], parents),
         currency |-> currencySymbol]]

SearchResult(a, response, parents, currencySymbol) ==
    LET products == SearchProducts(a, Elements(response), parents, currencySymbol)
    IN Returned(FALSE, Str("search-json"),
                [results |-> products,
                 searchTerm |-> a.term,
                 pagination |-> Pagination(TotalOr(response, Len(products)),
                                           TotalOr(response, 0),
                                           a.page, a.limit)])

SearchNoneText(a) ==
    Str("No products found for search term: \"") \o a.term \o Str("\"")

SearchResponse ==
    /\ At("store_product_search", "search")
    /\ \E resp \in SearchResponses :
        LET out == Request(resp)
            parentIds == ParentIds(Elements(out.value))
        IN IF out.threw THEN End(resp, Thrown(out.message))
           ELSE IF Len(Elements(out.value)) = 0
                THEN End(resp, Returned(FALSE, SearchNoneText(args), NoData))
           ELSE IF Len(parentIds) > 0
                THEN Continue(resp, "parents",
                              Post(Client(args, LanguageOrDefault(args)),
                                   Str("product"), ParentsBody(parentIds)),
                              loc)
           ELSE End(resp, SearchResult(args, out.value, <<>>, loc.currencySymbol))

\* the primary response of a listing handler, kept across the parent fetch
Primary == Request(resps[Len(resps)]).value

SearchParentsResponse ==
    /\ At("store_product_search", "parents")
    /\ \E resp \in ParentResponses :
           End(resp, SearchResult(args, Primary, ParentsOf(Request(resp)),
                                  loc.currencySymbol))

-----------------------------------------------------------------------------
(* category tools *)

ListingLimits == {1, 5}
ListingArgs == [creds : CredSet, categoryId : {Str("cat-1")}, limit : ListingLimits]

ListingJsons == {EmptyObj} \cup {[elements |-> WithIds(p), total |-> Len(p)] : p \in NamePages}
ListingResponses == Failures \cup {NoContent} \cup {JsonOk(j) : j \in ListingJsons}

ListingInvoke ==
    /\ Idle
    /\ \E a \in ListingArgs :
        Begin("store_product_listing", a, "product-listing",
              Post(Client(a, DefaultLanguageId),
                   Str("product-listing/") \o a.categoryId, [limit |-> a.limit]),
              NoLoc)

ListingFailed(a) ==
    Returned(TRUE,
             Str("Failed to fetch products for category ") \o a.categoryId \o Str("."),
             NoData)

\* the text lines of the listing, one per element: "- [name] (ID: id, ...)"
ListingResult(elements, parents) ==
    Returned(FALSE, Str("Products in category:"),
             [lines |-> [i \in 1..Len(elements) |->
                            [id |-> elements[i].id,
                             name |-> DisplayName(elements[i], parents)]]])

ListingResponse ==
    /\ At("store_product_listing", "product-listing")
    /\ \E resp \in ListingResponses :
        LET out == Request(resp)
            parentIds == ParentIds(Elements(out.value))
        IN IF out.threw THEN End(resp, ListingFailed(args))
           ELSE IF Len(Elements(out.value)) = 0
                THEN End(resp, Returned(FALSE,
                                        Str("No products found in category ")
                                            \o args.categoryId \o Str("."),
                                        NoData))
           ELSE IF Len(parentIds) > 0
                THEN Continue(resp, "parents",
                              Post(Client(args, DefaultLanguageId), Str("product"),
                                   ParentsBody(parentIds)),
                              loc)
           ELSE End(resp, ListingResult(Elements(out.value), <<>>))

ListingParentsResponse ==
    /\ At("store_product_listing", "parents")
    /\ \E resp \in ParentResponses :
           End(resp, ListingResult(Elements(Primary), ParentsOf(Request(resp))))

\* the handlers that post one request and list what comes back:
\* tool name, path, text when nothing is listed, text on failure
SimpleTools ==
    {<<"store_category_list", Str("category"), Str("No categories found."),
       Str("Failed to fetch categories.")>>,
     <<"store_get_shipping_methods", Str("shipping-method"),
       Str("No shipping methods available."), Str("Failed to fetch shipping methods.")>>,
     <<"store_get_payment_methods", Str("payment-method"),
       Str("No payment methods available."), Str("Failed to fetch payment methods.")>>}

SimpleEntry(t) == CHOOSE e \in SimpleTools : e[1] = t

CategoryLimits == {10}
OnlyAvailable == {TRUE}

SimpleArgs(t) ==
    IF t = "store_category_list"
    THEN [creds : CredSet, limit : CategoryLimits]
    ELSE [creds : CredSet, onlyAvailable : OnlyAvailable]

SimpleBody(t, a) ==
    IF t = "store_category_list"
    THEN [limit |-> a.limit]
    ELSE [onlyAvailable |-> a.onlyAvailable]

Entry(n) == [id |-> Str("entry-") \o Digits(n), name |-> Str("Entry")]
SimpleJsons ==
    {EmptyObj, [elements |-> <<>>], [elements |-> <<Entry(1)>>],
     [elements |-> <<Entry(1), [Entry(2) EXCEPT !.name = Null]>>]}
SimpleResponses == Failures \cup {NoContent} \cup {JsonOk(j) : j \in SimpleJsons}

SimpleInvoke ==
    /\ Idle
    /\ \E e \in SimpleTools :
        \E a \in SimpleArgs(e[1]) :
            Begin(e[1], a, "list",
                  Post(Client(a, DefaultLanguageId), e[2], SimpleBody(e[1], a)),
                  NoLoc)

SimpleResult(e, out) ==
    IF out.threw THEN Returned(TRUE, e[4], NoData)
    ELSE IF Len(Elements(out.value)) = 0 THEN Returned(FALSE, e[3], NoData)
    ELSE Returned(FALSE, Str("list-text"),
                  [lines |-> [i \in 1..Len(Elements(out.value)) |->
                                 OrElse(Elements(out.value)[i].name, Str("Unknown"))]])

SimpleResponse ==
    /\ pc = "list"
    /\ \E e \in SimpleTools :
        /\ tool = e[1]
        /\ \E resp \in SimpleResponses : End(resp, SimpleResult(e, Request(resp)))

-----------------------------------------------------------------------------
(* product identifiers handed to resolveProductId *)

Dash == <<"-">>
H8 == <<"0", "1", "2", "3", "a", "b", "c", "d">>
H4 == <<"e", "f", "4", "5">>
U8 == <<"0", "1", "2", "3", "A", "B", "C", "D">>
U4 == <<"E", "F", "4", "5">>

UuidLower == H8 \o Dash \o H4 \o Dash \o H4 \o Dash \o H4 \o Dash \o H8 \o H4
UuidUpper == U8 \o Dash \o U4 \o Dash \o U4 \o Dash \o U4 \o Dash \o U8 \o U4
UuidMixed == H8 \o Dash \o U4 \o Dash \o H4 \o Dash \o U4 \o Dash \o U8 \o H4
BareLower == H8 \o H8 \o H8 \o H8
BareMixed == U8 \o H8 \o U8 \o H8

Sku == <<"S", "W", "-", "1", "0", "0", "1">>
Hex31 == SubSeq(BareLower, 1, 31)
Hex33 == BareLower \o <<"0">>
NotHex32 == H8 \o H8 \o H8 \o <<"0", "1", "2", "3", "a", "b", "c", "g">>
MisplacedDash == H4 \o Dash \o H8 \o Dash \o H4 \o Dash \o H4 \o Dash \o H8 \o H4
DashlessLong == H8 \o H4 \o H4 \o H4 \o H8 \o H4 \o H4

UuidInputs == {UuidLower, UuidUpper, UuidMixed, BareLower, BareMixed}
OtherInputs == {Sku, EmptyStr, Hex31, Hex33, NotHex32, MisplacedDash, DashlessLong}
ProductIdInputs == UuidInputs \cup OtherInputs

\* the answers to the productNumber search
ResolveJsons ==
    {EmptyObj, [elements |-> <<>>], [elements |-> <<[id |-> ProductA]>>],
     [elements |-> <<[id |-> ProductB], [id |-> ProductA]>>]}
ResolveResponses == Failures \cup {NoContent} \cup {JsonOk(j) : j \in ResolveJsons}

\* uuidRegex.test(idOrSku) || simpleUuidRegex.test(idOrSku)
IsUuid(idOrSku) == UuidRegexTest(idOrSku) \/ SimpleUuidRegexTest(idOrSku)

\* resolveProductId up to its await: returns at once for a UUID, else posts
\* the productNumber search.  t is the calling handler, next/c its
\* continuation (await point and request) once the id is known.
ResolveInvoke(t, a, next, c) ==
    IF IsUuid(a.productId)
    THEN Begin(t, a, next, c, [resolvedId |-> a.productId])
    ELSE Begin(t, a, "resolve",
               Post(Client(a, LanguageOrDefault(a)), Str("search"),
                    ResolveBody(a.productId)),
               NoLoc)

-----------------------------------------------------------------------------
(* store_product_detail *)

\* an array-valued field: null (the association was not loaded) or an array
NoList == [isNull |-> TRUE, items |-> <<>>]
List(items) == [isNull |-> FALSE, items |-> items]

\* a product as the product endpoint returns it (the fields the detail view
\* derives from variant and parent)
Product(id, nm, parentId, description, media, manufacturer, cat) ==
    [id |-> id, name |-> nm[1], tname |-> nm[2], parentId |-> parentId,
     description |-> description, media |-> media,
     manufacturer |-> manufacturer, catName |-> cat[1], catTName |-> cat[2],
     properties |-> NoList, options |-> NoList, children |-> NoList]

\* an option or property: o.group?.name, o.group?.translated?.name, o.name,
\* o.translated?.name
Opt(group, gtname, name, tname) ==
    [group |-> group, gtname |-> gtname, name |-> name, tname |-> tname]

SizeM == Opt(Str("Size"), Null, Str("M"), Null)
SizeL == Opt(Str("Size"), Null, Str("L"), Null)
ColorRed == Opt(Str("Color"), Null, Str("Red"), Null)
TranslatedOpt == Opt(Null, Str("Farbe"), Null, Str("Rot"))
NoGroupOpt == Opt(Null, Null, Str("XL"), Null)
NoValueOpt == Opt(Str("Length"), Null, Null, EmptyStr)
Material == Opt(Str("Material"), Null, Str("Cotton"), Null)

\* a child as the children association returns it: options loaded,
\* properties not
Child(n, options) ==
    [id |-> Str("child-") \o Digits(n), properties |-> NoList,
     options |-> List(options)]

Siblings ==
    <<Child(1, <<SizeM, ColorRed>>), Child(2, <<SizeL, ColorRed>>),
      Child(3, <<NoValueOpt>>)>>

HtmlText == <<"<", "b", ">", "S", "o", "f", "t", "<", "/", "b", ">">>
PlainText == <<"W", "a", "r", "m">>
RelativeUrl == <<"/", "v", ".", "p", "n", "g">>
AbsoluteUrl == <<"h", "t", "t", "p", ":", "/", "/", "c", "d", "n", "/", "p">>

NoName == <<Null, Null>>

\* products varying in name and parent
PlainProducts(id) ==
    {Product(id, nm, par, Null, <<>>, Null, NoName) :
        nm \in {NoName, <<Str("Tee"), Null>>, <<Null, Str("T-Shirt")>>},
        par \in {Null, ParentP}}

\* variants of P with every combination of own description, media,
\* manufacturer and category
VariantProducts(id) ==
    {Product(id, <<Str("Tee"), Null>>, ParentP, d, m, f, c) :
        d \in {Null, HtmlText}, m \in {<<>>, <<RelativeUrl>>},
        f \in {Null, Str("ACME")}, c \in {NoName, <<Str("Shirts"), Null>>}}
    \cup {Product(id, NoName, ParentP, EmptyStr, <<Null>>, Null, <<Null, Str("Hemden")>>)}

NestedHtml ==
    <<"<", "p", ">", "S", "o", "f", "t", " ", "<", "b", ">", "c", "o", "t", "t",
      "o", "n", "<", "/", "b", ">", "<", "/", "p", ">">>
UnclosedText == <<"1", " ", "<", " ", "2">>
StrayCloseText == <<"a", ">", "b", "<", "i", ">">>

\* products without a parent whose description carries markup
MarkupProducts(id) ==
    {Product(id, <<Str("Tee"), Null>>, Null, d, <<>>, Null, NoName) :
        d \in {NestedHtml, UnclosedText, StrayCloseText}}

\* products varying in properties, options and children: a variant with the
\* properties association not loaded, empty and filled, a parent with
\* children, a product with incomplete and repeated options
OptionProducts(id) ==
    LET variant == Product(id, <<Str("Tee"), Null>>, ParentP, Null, <<>>, Null, NoName)
        single == Product(id, <<Str("Tee"), Null>>, Null, Null, <<>>, Null, NoName)
    IN {[variant EXCEPT !.options = List(<<SizeM>>)],
        [variant EXCEPT !.properties = List(<<>>), !.options = List(<<SizeM>>)],
        [variant EXCEPT !.properties = List(<<Material>>),
                        !.options = List(<<SizeL>>)],
        [single EXCEPT !.properties = List(<<>>), !.options = List(<<>>),
                       !.children = List(Siblings)],
        [single EXCEPT !.children = List(<<>>),
                       !.options = List(<<TranslatedOpt, NoGroupOpt, NoValueOpt,
                                          SizeM, SizeM, SizeL>>)]}

\* the upstream catalog: what the product endpoint may hold under an id
DetailProducts(id) ==
    IF id \in {UuidLower, ProductA}
    THEN PlainProducts(id) \cup VariantProducts(id) \cup MarkupProducts(id)
             \cup OptionProducts(id)
    ELSE PlainProducts(id)

DetailParents ==
    {Product(ParentP, <<Str("Blue Shirt"), Null>>, Null, d, m, f, c) :
        d \in {Null, PlainText}, m \in {<<>>, <<AbsoluteUrl>>},
        f \in {Null, Str("Umbrella")}, c \in {NoName, <<Str("Tops"), Null>>}}
    \cup {Product(ParentP, nm, Null, Null, <<>>, Null, <<Null, Str("Oberteile")>>) :
        nm \in {NoName, <<Null, Str("Blaues Hemd")>>}}
    \cup {Product(ParentP, <<Str("Blue Shirt"), Null>>, ParentQ, PlainText, <<>>, Null,
                   NoName)}
    \cup {[Product(ParentP, <<Str("Blue Shirt"), Null>>, Null, Null, <<>>, Null, NoName)
               EXCEPT !.children = List(Siblings)]}

\* the answer to the primary product fetch for a resolved id
DetailJsons(id) ==
    {EmptyObj, [elements |-> <<>>]} \cup {[elements |-> <<p>>] : p \in DetailProducts(id)}
DetailResponses(id) ==
    Failures \cup {NoContent} \cup {JsonOk(j) : j \in DetailJsons(id)}

DetailParentJsons == {[elements |-> <<>>]} \cup {[elements |-> <<p>>] : p \in DetailParents}
DetailParentResponses == SubFailures \cup {JsonOk(j) : j \in DetailParentJsons}

DetailArgs ==
    [creds : {FullCreds}, productId : UuidInputs \cup {Sku, EmptyStr}]
    \cup [creds : {NoCreds}, productId : {UuidLower}]

DetailBody(resolvedId) == [ids |-> <<resolvedId>>, limit |-> 1]

DetailInvoke ==
    /\ Idle
    /\ \E a \in DetailArgs :
        ResolveInvoke("store_product_detail", a, "product",
                      Post(Client(a, LanguageOrDefault(a)), Str("product"),
                           DetailBody(a.productId)))

DetailResolveResponse ==
    /\ At("store_product_detail", "resolve")
    /\ \E resp \in ResolveResponses :
        LET resolvedId == ResolveResult(Request(resp))
        IN IF Falsy(resolvedId)
           THEN End(resp, Returned(TRUE, Str("Product not found: ") \o args.productId,
                                   NoData))
           ELSE Continue(resp, "product",
                         Post(Client(args, LanguageOrDefault(args)), Str("product"),
                              DetailBody(resolvedId)),
                         [resolvedId |-> resolvedId])

DetailProductResponse ==
    /\ At("store_product_detail", "product")
    /\ \E resp \in DetailResponses(loc.resolvedId) :
        LET out == Request(resp)
        IN IF out.threw THEN End(resp, Thrown(out.message))
           ELSE IF Len(Elements(out.value)) = 0
                THEN End(resp, Returned(TRUE,
                                        Str("Product not found with ID: ")
                                            \o loc.resolvedId,
                                        NoData))
           ELSE Continue(resp, "context",
                         HttpGet(Client(args, LanguageOrDefault(args)), Str("context")),
                         [resolvedId |-> loc.resolvedId,
                          p |-> Elements(out.value)[1]])

\* s.replace(/<[^>]*>?/gm, ''): a '<' opens a span that runs to the next '>'
\* or, when there is none, to the end of the text
RECURSIVE StripFrom(_, _, _)
StripFrom(s, i, inTag) ==
    IF i > Len(s) THEN <<>>
    ELSE IF inTag THEN StripFrom(s, i + 1, s[i] # ">")
    ELSE IF s[i] = "<" THEN StripFrom(s, i + 1, TRUE)
    ELSE <<s[i]>> \o StripFrom(s, i + 1, FALSE)

StripTags(s) == StripFrom(s, 1, FALSE)

\* (args.shopUrl || "").replace(/\/$/, "")
BaseShopUrl(a) == DropTrailingSlash(OrElse(a.creds.shopUrl, EmptyStr))

StartsWith(s, prefix) == Len(s) >= Len(prefix) /\ SubSeq(s, 1, Len(prefix)) = prefix

\* an image url made absolute against the shop url
ImageUrl(url, base) ==
    IF Truthy(url) /\ ~StartsWith(url, <<"h", "t", "t", "p">>) /\ Truthy(base)
    THEN base \o <<"/">> \o DropLeadingSlash(url)
    ELSE url

RECURSIVE Compact(_)
\* .filter(Boolean)
Compact(urls) ==
    IF urls = <<>> THEN <<>>
    ELSE IF Falsy(Head(urls)) THEN Compact(Tail(urls))
    ELSE <<Head(urls)>> \o Compact(Tail(urls))

NoParent == [noparent |-> TRUE]

\* parent?.f
ParentGet(parent, f) == IF parent = NoParent THEN Null ELSE parent[f]

\* p.description || parent?.description, tags stripped; null when empty
DetailDescription(p, parent) ==
    LET rawDescription == OrElse(p.description, ParentGet(parent, "description"))
    IN IF Truthy(rawDescription) THEN StripTags(rawDescription) ELSE Null

\* the manufacturer falling back only together with the description
DetailManufacturerCoupled(p, parent) ==
    IF Truthy(p.description)
    THEN OrElse(p.manufacturer, Null)
    ELSE OrElse(OrElse(p.manufacturer, ParentGet(parent, "manufacturer")), Null)

\* p.manufacturer?.name || parent?.manufacturer?.name || null
DetailManufacturer(p, parent) ==
    OrElse(OrElse(p.manufacturer, ParentGet(parent, "manufacturer")), Null)

\* the media list the images are taken from
DetailMedia(p, parent) ==
    IF Len(p.media) > 0 THEN p.media
    ELSE IF parent = NoParent THEN <<>> ELSE parent.media

DetailImages(a, p, parent) ==
    LET media == DetailMedia(p, parent)
    IN Compact([i \in 1..Len(media) |-> ImageUrl(media[i], BaseShopUrl(a))])

\* p.categories?.[0]?.name ?? ...translated?.name ?? parent?... ?? null
DetailCategoryName(p, parent) ==
    Coalesce(p.catName,
             Coalesce(p.catTName,
                      Coalesce(ParentGet(parent, "catName"),
                               ParentGet(parent, "catTName"))))

\* the variants whose options are aggregated: the parent's children for a
\* variant whose parent was fetched, the product's own children for a parent
AllVariants(p, parent) ==
    IF Truthy(p.parentId)
    THEN IF parent # NoParent THEN parent.children.items ELSE <<>>
    ELSE p.children.items

\* availableOptions[group].add(val), the groups kept in order of first use
AddValue(available, group, val) ==
    IF \E i \in 1..Len(available) : available[i].group = group
    THEN [i \in 1..Len(available) |->
             IF available[i].group = group
                    /\ \A k \in 1..Len(available[i].values) : available[i].values[k] # val
             THEN [available[i] EXCEPT !.values = Append(@, val)]
             ELSE available[i]]
    ELSE Append(available, [group |-> group, values |-> <<val>>])

\* opts.forEach(...) of processOptions
RECURSIVE AddOptions(_, _)
AddOptions(available, opts) ==
    IF opts = <<>> THEN available
    ELSE LET o == Head(opts)
             group == OrElse(o.group, o.gtname)
             val == OrElse(o.name, o.tname)
         IN AddOptions(IF Truthy(group) /\ Truthy(val)
                       THEN AddValue(available, group, val)
                       ELSE available,
                       Tail(opts))

\* variant.properties || variant.options: an array, even an empty one, is
\* truthy
PropertiesOrOptions(variant) ==
    IF variant.properties.isNull THEN variant.options ELSE variant.properties

\* processOptions over the variants in turn
RECURSIVE ProcessOptions(_, _)
ProcessOptions(available, variants) ==
    IF variants = <<>> THEN available
    ELSE LET opts == PropertiesOrOptions(Head(variants))
         IN ProcessOptions(IF opts.isNull THEN available
                           ELSE AddOptions(available, opts.items),
                           Tail(variants))

\* formattedAvailableOptions: the siblings or children first, then the
\* product itself
AvailableOptions(p, parent) ==
    ProcessOptions(<<>>, Append(AllVariants(p, parent), p))

\* name: p.name ?? p.translated?.name
DetailName(p, parent) == Coalesce(p.name, p.tname)

ProductDetail(a, p, parent, currencySymbol) ==
    [id |-> p.id,
     name |-> DetailName(p, parent),
     description |-> DetailDescription(p, parent),
     currency |-> currencySymbol,
     manufacturer |-> DetailManufacturer(p, parent),
     availableOptions |-> AvailableOptions(p, parent),
     images |-> DetailImages(a, p, parent),
     categoryName |-> DetailCategoryName(p, parent)]

\* the detail view stamped with the number of invocations served before
DetailResultNumbered(a, p, parent, currencySymbol) ==
    Returned(FALSE, Str("detail-json"),
             [ProductDetail(a, p, parent, currencySymbol) EXCEPT
                  !.id = @ \o Str("#") \o Digits(Len(others))])

DetailResult(a, p, parent, currencySymbol) ==
    Returned(FALSE, Str("detail-json"), ProductDetail(a, p, parent, currencySymbol))

DetailParentBody(parentId) == [ids |-> <<parentId>>]

DetailContextResponse ==
    /\ At("store_product_detail", "context")
    /\ \E resp \in ContextResponses :
        LET currencySymbol == CurrencySymbol(Request(resp))
        IN IF Truthy(loc.p.parentId)
           THEN Continue(resp, "parent",
                         Post(Client(args, LanguageOrDefault(args)), Str("product"),
                              DetailParentBody(loc.p.parentId)),
                         [resolvedId |-> loc.resolvedId, p |-> loc.p,
                          currencySymbol |-> currencySymbol])
           ELSE End(resp, DetailResult(args, loc.p, NoParent, currencySymbol))

\* parentRes.elements?.[0], null when there is none or the fetch failed
FetchedParent(out) ==
    IF ~out.threw /\ Len(Elements(out.value)) > 0
    THEN Elements(out.value)[1]
    ELSE NoParent

\* the parent fetch repeated for the parent's own parent, up the chain
DetailParentResponseWalkingUp ==
    /\ At("store_product_detail", "parent")
    /\ \E resp \in DetailParentResponses :
        LET parent == FetchedParent(Request(resp))
        IN IF parent # NoParent /\ Truthy(parent.parentId)
           THEN Continue(resp, "parent",
                         Post(Client(args, LanguageOrDefault(args)), Str("product"),
                              DetailParentBody(parent.parentId)),
                         loc)
           ELSE End(resp, DetailResult(args, loc.p, parent, loc.currencySymbol))

DetailParentResponse ==
    /\ At("store_product_detail", "parent")
    /\ \E resp \in DetailParentResponses :
           End(resp, DetailResult(args, loc.p, FetchedParent(Request(resp)),
                                  loc.currencySymbol))

-----------------------------------------------------------------------------
(* store_product_reviews *)

ReviewLimits == {5}
ReviewsArgs ==
    [creds : {FullCreds}, productId : ProductIdInputs, limit : ReviewLimits]
    \cup [creds : {NoCreds}, productId : {BareMixed}, limit : ReviewLimits]

Review(n) == [id |-> Str("review-") \o Digits(n), title |-> Str("Great"), points |-> 5]

ReviewJsons ==
    {EmptyObj, [elements |-> <<>>], [elements |-> <<Review(1)>>],
     [elements |-> <<Review(1), Review(2)>>]}
ReviewResponses == Failures \cup {NoContent} \cup {JsonOk(j) : j \in ReviewJsons}

ParentReview(n) == [Review(n) EXCEPT !.id = Str("parent-review-") \o Digits(n)]
ParentReviewJsons == {EmptyObj, [elements |-> <<>>], [elements |-> <<ParentReview(1)>>]}
ParentReviewResponses == SubFailures \cup {JsonOk(j) : j \in ParentReviewJsons}

\* the answers to the parentId lookup of the fallback
ParentIdJsons ==
    {EmptyObj, [elements |-> <<>>], [elements |-> <<[parentId |-> Null]>>],
     [elements |-> <<[parentId |-> ParentP]>>]}
ParentIdResponses == SubFailures \cup {JsonOk(j) : j \in ParentIdJsons}

ReviewsPath(id) == Str("product/") \o id \o Str("/reviews")
ReviewsBody(a) == [limit |-> a.limit, includes |-> "product_review"]

ReviewsInvoke ==
    /\ Idle
    /\ \E a \in ReviewsArgs :
        ResolveInvoke("store_product_reviews", a, "reviews",
                      Post(Client(a, LanguageOrDefault(a)), ReviewsPath(a.productId),
                           ReviewsBody(a)))

ReviewsResolveResponse ==
    /\ At("store_product_reviews", "resolve")
    /\ \E resp \in ResolveResponses :
        LET resolvedId == ResolveResult(Request(resp))
        IN IF Falsy(resolvedId)
           THEN End(resp, Returned(FALSE, Str("Product not found: ") \o args.productId,
                                   NoData))
           ELSE Continue(resp, "reviews",
                         Post(Client(args, LanguageOrDefault(args)),
                              ReviewsPath(resolvedId), ReviewsBody(args)),
                         [resolvedId |-> resolvedId])

ReviewsFailed(a) ==
    Returned(TRUE, Str("Failed to fetch reviews for product ") \o a.productId \o Str("."),
             NoData)

ReviewsNone(a) ==
    Returned(FALSE, Str("No reviews found for product ") \o a.productId \o Str("."),
             NoData)

\* the text of the reviews found
ReviewsResult(a, elements) ==
    IF Len(elements) = 0 THEN ReviewsNone(a)
    ELSE Returned(FALSE, Str("Product Reviews:"), [reviews |-> elements])

ReviewsResponse ==
    /\ At("store_product_reviews", "reviews")
    /\ \E resp \in ReviewResponses :
        LET out == Request(resp)
        IN IF out.threw THEN End(resp, ReviewsFailed(args))
           ELSE IF Len(Elements(out.value)) > 0
                THEN End(resp, ReviewsResult(args, Elements(out.value)))
           ELSE Continue(resp, "parent-id",
                         Post(Client(args, LanguageOrDefault(args)), Str("product"),
                              [ids |-> <<loc.resolvedId>>, includes |-> "product:parentId"]),
                         loc)

\* the parentId looked up with a failed lookup taken for the variant's parent
FallbackParentIdAssumed(out) ==
    IF out.threw THEN ParentP
    ELSE IF Len(Elements(out.value)) > 0
    THEN Get(Elements(out.value)[1], "parentId")
    ELSE Null

\* productRes.elements?.[0]?.parentId
FallbackParentId(out) ==
    IF ~out.threw /\ Len(Elements(out.value)) > 0
    THEN Get(Elements(out.value)[1], "parentId")
    ELSE Null

ReviewsParentIdResponse ==
    /\ At("store_product_reviews", "parent-id")
    /\ \E resp \in ParentIdResponses :
        LET parentId == FallbackParentId(Request(resp))
        IN IF Truthy(parentId)
           THEN Continue(resp, "parent-reviews",
                         Post(Client(args, LanguageOrDefault(args)),
                              ReviewsPath(parentId), ReviewsBody(args)),
                         loc)
           ELSE End(resp, ReviewsNone(args))

ReviewsParentResponse ==
    /\ At("store_product_reviews", "parent-reviews")
    /\ \E resp \in ParentReviewResponses :
        LET out == Request(resp)
        IN End(resp, ReviewsResult(args, IF out.threw THEN <<>> ELSE Elements(out.value)))

-----------------------------------------------------------------------------
(* StoreApiClient.request called directly *)

ClientTool == "StoreApiClient.request"

ShopNoSlash == SubSeq(ShopUrl, 1, Len(ShopUrl) - 1)
ShopTwoSlashes == ShopUrl \o <<"/">>
ShopUrls == {Null, EmptyStr, ShopNoSlash, ShopUrl, ShopTwoSlashes}

\* credentials as handed to the constructor: every field optional
ClientCredentials ==
    {[FullCreds EXCEPT !.shopUrl = u] : u \in ShopUrls}
    \cup {NoCreds,
          [FullCreds EXCEPT !.swLanguageId = Null],
          [FullCreds EXCEPT !.swAccessKey = Null, !.swContextToken = EmptyStr]}

RequestPaths ==
    {Str("context"), <<"/", "context">>, <<"/", "/", "context">>,
     <<"product", "/", "x", "/", "reviews">>, EmptyStr}

RequestArgs == [creds : ClientCredentials, path : RequestPaths, method : {"GET"}]

Status(st, stText, body, j) ==
    [kind |-> "http", status |-> st, statusText |-> stText, bodyText |-> body,
     json |-> j]

\* what fetch may deliver: success and non-success statuses, with and
\* without a body
ClientResponses ==
    Failures
    \cup {NoContent,
          Status(204, Str("No Content"), <<"x">>, BadJson),
          JsonOk(EmptyObj),
          JsonOk([elements |-> <<[id |-> ProductA]>>]),
          Status(201, Str("Created"), EmptyStr, [id |-> ProductB]),
          Status(199, EmptyStr, EmptyStr, NoJson),
          Status(300, Str("Multiple Choices"), EmptyStr, NoJson),
          Status(404, Str("Not Found"), <<"n", "o", "n", "e">>, NoJson)}

\* the promise request() returns: resolved with a value or rejected
Resolved(v) == [kind |-> "resolved", value |-> v]
RequestOutcome(out) == IF out.threw THEN Thrown(out.message) ELSE Resolved(out.value)

RequestInvoke ==
    /\ Idle
    /\ \E a \in RequestArgs :
        Begin(ClientTool, a, "fetch", Call(a.creds, a.method, a.path, NoBody), NoLoc)

RequestResponse ==
    /\ At(ClientTool, "fetch")
    /\ \E resp \in ClientResponses : End(resp, RequestOutcome(Request(resp)))

-----------------------------------------------------------------------------
(* Several invocations on the one event loop *)

\* the running invocation as a value
Running ==
    [tool |-> tool, args |-> args, pc |-> pc, calls |-> calls, resps |-> resps,
     loc |-> loc, result |-> result]

\* the running handler stays at its await, or has ended, and the event loop
\* is free to start another invocation
Park ==
    /\ pc # "idle"
    /\ others = <<>>
    /\ others' = <<Running>>
    /\ tool' = "none"
    /\ args' = NoArgs
    /\ pc' = "idle"
    /\ calls' = <<>>
    /\ resps' = <<>>
    /\ loc' = NoLoc
    /\ result' = Pending
    /\ UNCHANGED transport

\* the event loop turns to the suspended invocation; the running one, if
\* any, is kept in its place
Switch ==
    /\ others # <<>>
    /\ others[1].pc # "done"
    /\ others' = IF pc = "idle" THEN <<>> ELSE <<Running>>
    /\ tool' = others[1].tool
    /\ args' = others[1].args
    /\ pc' = others[1].pc
    /\ calls' = others[1].calls
    /\ resps' = others[1].resps
    /\ loc' = others[1].loc
    /\ result' = others[1].result
    /\ UNCHANGED transport

-----------------------------------------------------------------------------
(* index.ts: the SSE endpoint and the session-keyed message endpoint *)

\* the sessions tried
MaxSessions == 3

\* transport.sessionId of the n-th connection (the SDK draws a fresh UUID)
SessionId(n) == Str("session-") \o Digits(n)

\* new SSEServerTransport("/message", res)
SseTransport(sessionId) == [sessionId |-> sessionId, endpoint |-> Str("/message")]

\* transports.set(sessionId, transport)
MapSet(map, key, value) ==
    [k \in DOMAIN map \cup {key} |-> IF k = key THEN value ELSE map[k]]

\* an onclose handler that leaves the Map as it is
MapKeep(map, key) == map

\* transports.delete(sessionId)
MapDelete(map, key) == [k \in DOMAIN map \ {key} |-> map[k]]

NoPost == [nopost |-> TRUE]
NoTransport == [notransport |-> TRUE]

\* GET /sse: the transport is made and registered under its session id
SseConnect ==
    /\ Cardinality(DOMAIN connections) < MaxSessions
    /\ LET sessionId == SessionId(Cardinality(DOMAIN connections) + 1)
       IN /\ transports' = MapSet(transports, sessionId, SseTransport(sessionId))
          /\ connections' = MapSet(connections, sessionId, "open")
    /\ UNCHANGED <<invocation, others, posted>>

\* an open connection closes: transport.onclose runs
SseClose ==
    /\ \E sessionId \in DOMAIN connections :
        /\ connections[sessionId] = "open"
        /\ transports' = MapDelete(transports, sessionId)
        /\ connections' = MapSet(connections, sessionId, "closed")
    /\ UNCHANGED <<invocation, others, posted>>

\* req.query.sessionId of the requests tried: absent, empty, a session id
\* that may have been issued, one that never was
SessionQueries ==
    {Null, EmptyStr, Str("no-such-session")}
    \cup {SessionId(n) : n \in 1..MaxSessions}

\* the answer of POST /message: 400, 404, or the message handed to the
\* session's transport (which then answers itself; status 0 here)
MessageAnswer(map, sessionId) ==
    IF Falsy(sessionId)
    THEN [status |-> 400, text |-> Str("Missing sessionId query parameter"),
          handledBy |-> NoTransport]
    ELSE IF sessionId \notin DOMAIN map
    THEN [status |-> 404, text |-> Str("Session not found"), handledBy |-> NoTransport]
    ELSE [status |-> 0, text |-> EmptyStr, handledBy |-> map[sessionId]]

\* POST /message
PostMessage ==
    /\ \E sessionId \in SessionQueries :
        posted' = [sessionId |-> sessionId,
                   answer |-> MessageAnswer(transports, sessionId),
                   wasOpen |-> sessionId \in DOMAIN connections
                                   /\ connections[sessionId] = "open"]
    /\ UNCHANGED <<invocation, others, transports, connections>>

-----------------------------------------------------------------------------

Init ==
    /\ tool = "none"
    /\ args = NoArgs
    /\ pc = "idle"
    /\ calls = <<>>
    /\ resps = <<>>
    /\ loc = NoLoc
    /\ result = Pending
    /\ others = <<>>
    /\ transports = <<>>
    /\ connections = <<>>
    /\ posted = NoPost

Next ==
    \/ CartGetInvoke
    \/ CartGetResponse
    \/ CartAddInvoke
    \/ CartAddResponse
    \/ OrderListInvoke
    \/ OrderListResponse
    \/ OrderCreateInvoke
    \/ OrderCreateResponse
    \/ SearchInvoke
    \/ SearchContextResponse
    \/ SearchResponse
    \/ SearchParentsResponse
    \/ ListingInvoke
    \/ ListingResponse
    \/ ListingParentsResponse
    \/ SimpleInvoke
    \/ SimpleResponse
    \/ DetailInvoke
    \/ DetailResolveResponse
    \/ DetailProductResponse
    \/ DetailContextResponse
    \/ DetailParentResponse
    \/ ReviewsInvoke
    \/ ReviewsResolveResponse
    \/ ReviewsResponse
    \/ ReviewsParentIdResponse
    \/ ReviewsParentResponse
    \/ RequestInvoke
    \/ RequestResponse

Spec == Init /\ [][Next]_vars

\* two invocations in flight at once: cart views and review lookups, their
\* steps interleaved in every order
ConcurrentIds == {UuidLower, BareMixed, Sku}
ConcurrentNext ==
    \/ CartGetInvoke
    \/ CartGetResponse
    \/ ReviewsInvoke /\ args'.productId \in ConcurrentIds
    \/ ReviewsResolveResponse
    \/ ReviewsResponse
    \/ ReviewsParentIdResponse
    \/ ReviewsParentResponse
    \/ Park
    \/ Switch

ConcurrentSpec == Init /\ [][ConcurrentNext]_vars

\* the upstream unchanged since the invocation that ended before: the same
\* arguments are given and every request that was made then gets the
\* response it got then
SameUpstream ==
    others # <<>> =>
        /\ args = others[1].args
        /\ \A i \in 1..Len(resps) : \A j \in 1..Len(others[1].resps) :
               calls[i] = others[1].calls[j] => resps[i] = others[1].resps[j]

DetailNext ==
    \/ DetailInvoke
    \/ DetailResolveResponse
    \/ DetailProductResponse
    \/ DetailContextResponse
    \/ DetailParentResponse

\* product detail invoked, and once it has ended invoked again
RepeatNext ==
    \/ DetailNext /\ SameUpstream'
    \/ pc = "done" /\ Park

RepeatSpec == Init /\ [][RepeatNext]_vars

\* the HTTP transport alone: connects, closes and posts in any order
TransportNext ==
    \/ SseConnect
    \/ SseClose
    \/ PostMessage

TransportSpec == Init /\ [][TransportNext]_vars

-----------------------------------------------------------------------------
(* Properties *)

Done == pc = "done"
Resolving == tool \in {"store_product_detail", "store_product_reviews"}

\* the two textual forms of a canonical identifier, in any letter case
AnyCaseHex == HexSyms \cup UpperHexSyms
Groups(s, lens) ==
    /\ Len(s) = lens[1] + lens[2] + lens[3] + lens[4] + lens[5] + 4
    /\ \A i \in 1..Len(s) :
          IF i \in {lens[1] + 1, lens[1] + lens[2] + 2,
                    lens[1] + lens[2] + lens[3] + 3,
                    lens[1] + lens[2] + lens[3] + lens[4] + 4}
          THEN s[i] = "-"
          ELSE s[i] \in AnyCaseHex
HyphenatedForm(s) == Groups(s, <<8, 4, 4, 4, 12>>)
BareForm(s) == Len(s) = 32 /\ \A i \in 1..Len(s) : s[i] \in AnyCaseHex
CanonicalId(s) == HyphenatedForm(s) \/ BareForm(s)

SearchCalls == {i \in 1..Len(calls) : calls[i].path = Str("search")}

\* C1: resolveProductId returns an input of the hyphenated 8-4-4-4-12 form or
\* of the bare 32-hex-digit form, in any letter case, unchanged, and issues no
\* upstream call for it: the handler's first request already carries the input
\* as the resolved id and no productNumber search is ever issued.
C1_UuidPassesThrough ==
    (Resolving /\ CanonicalId(args.productId)) =>
        /\ Has(loc, "resolvedId") /\ loc.resolvedId = args.productId
        /\ SearchCalls = {}
        /\ calls[1].path # Str("search")

C1_Witness ==
    /\ tool = "store_product_detail"
    /\ args.productId = UuidUpper
    /\ Done
    /\ result.kind = "returned" /\ ~result.isError
    /\ calls[1].body = DetailBody(UuidUpper)

\* the response carries a JSON body with at least one element
HasElement(resp) ==
    /\ resp.kind = "http"
    /\ resp.status = 200
    /\ resp.json \notin {NoJson, BadJson}
    /\ Has(resp.json, "elements")
    /\ resp.json.elements # <<>>

NotFoundResult ==
    /\ Done
    /\ Len(calls) = 1
    /\ result.kind = "returned"
    /\ result.text = Str("Product not found: ") \o args.productId

\* C2: for an input that is not a UUID, resolveProductId issues exactly one
\* search call (equals filter on productNumber with the input as value, limit
\* 1); when the answer has at least one element the result is the first
\* element's id; when it has none or the call fails, nothing is thrown and
\* the result is null (the handler reports the product as not found).
C2_SkuResolvedBySearch ==
    (Resolving /\ ~CanonicalId(args.productId)) =>
        /\ calls[1].method = "POST"
        /\ calls[1].path = Str("search")
        /\ calls[1].body.filter =
               <<[type |-> "equals", field |-> "productNumber",
                  value |-> args.productId]>>
        /\ calls[1].body.limit = 1
        /\ Cardinality(SearchCalls) = 1
        /\ Len(resps) >= 1 =>
               IF HasElement(resps[1])
               THEN /\ Has(loc, "resolvedId")
                    /\ loc.resolvedId = resps[1].json.elements[1].id
                    /\ Len(calls) >= 2
               ELSE /\ ~Has(loc, "resolvedId")
                    /\ NotFoundResult

C2_Witness ==
    /\ tool = "store_product_reviews"
    /\ args.productId = Sku
    /\ Done
    /\ HasElement(resps[1])
    /\ Len(resps[1].json.elements) = 2
    /\ loc.resolvedId = ProductB
    /\ calls[2].path = ReviewsPath(ProductB)

AuthTools ==
    {"store_cart_get", "store_cart_add", "store_order_list", "store_order_create"}

LoginText(t) ==
    CASE t = "store_cart_get" -> CartLoginText
      [] t = "store_cart_add" -> CartAddLoginText
      [] t = "store_order_list" -> OrderListLoginText
      [] t = "store_order_create" -> OrderCreateLoginText

Answered403 == resps[1].kind = "http" /\ resps[1].status = 403

\* C3: when the upstream answers 403 to store_cart_get, store_cart_add,
\* store_order_list or store_order_create, the handler returns a result with
\* isError false whose text asks for the user to log in; it neither throws
\* nor returns an error result.
C3_ForbiddenMeansLogIn ==
    (Done /\ tool \in AuthTools /\ Answered403) =>
        /\ result.kind = "returned"
        /\ result.isError = FALSE
        /\ result.text = LoginText(tool)

C3_Witness ==
    /\ Done
    /\ tool = "store_order_list"
    /\ Answered403
    /\ resps[1].bodyText = EmptyStr
    /\ result.kind = "returned"
    /\ result.text = OrderListLoginText

\* C4: every tool handler returns a result value for every upstream outcome
\* (a success payload or an isError result); no upstream failure escapes the
\* handler as a thrown exception.
C4_HandlersAlwaysReturn == (Done /\ tool # ClientTool) => result.kind = "returned"

\* C5: an authentication-required handler returns its not-logged-in result if
\* and only if the failed call's HTTP status was 403; no other status and no
\* network failure is classified as not-authenticated, whatever the status
\* text or the body contains.
C5_LogInIffStatus403 ==
    (Done /\ tool \in AuthTools) =>
        ((result.kind = "returned" /\ result.text = LoginText(tool)) <=> Answered403)

\* the JSON body of the handler's primary upstream call (the listing itself;
\* the search handler fetches the currency context before it)
PrimaryIndex == IF tool = "store_product_search" THEN 2 ELSE 1
Upstream == resps[PrimaryIndex].json

\* a page of results was returned
ListedPage == Done /\ result.kind = "returned" /\ result.data # NoData

UpstreamHasTotal ==
    IF tool = "store_order_list"
    THEN Has(Upstream, "orders") /\ Has(Upstream.orders, "total")
    ELSE Has(Upstream, "total")

UpstreamTotal ==
    IF tool = "store_order_list" THEN Upstream.orders.total ELSE Upstream.total

ReportsPage ==
    /\ Has(result.data, "pagination")
    /\ result.data.pagination.total = UpstreamTotal
    /\ result.data.pagination.hasNextPage = (UpstreamTotal > args.page * args.limit)

\* C6 as stated: every listing operation (product search, order list, category
\* product listing) reports the total count and hasNextPage = total > page *
\* limit, for every total, page and limit.
C6_EveryListingReportsPage ==
    (ListedPage /\ UpstreamHasTotal
        /\ tool \in {"store_product_search", "store_order_list", "store_product_listing"})
        => ReportsPage

\* C6, amended: product search and order list report the total count and
\* hasNextPage = total > page * limit for every total, page and limit (with
\* total 7 and limit 3: true on page 1, false on page 3); the category product
\* listing takes no page and reports neither a total nor a hasNextPage flag.
C6_PagedListingsReportPage ==
    /\ (ListedPage /\ tool \in {"store_product_search", "store_order_list"}) =>
           /\ Has(result.data, "pagination")
           /\ UpstreamHasTotal => ReportsPage
    /\ (ListedPage /\ tool = "store_product_listing") =>
           ~Has(result.data, "pagination")

C6_Witness ==
    /\ ListedPage
    /\ tool = "store_product_search"
    /\ UpstreamHasTotal /\ UpstreamTotal = 7
    /\ args.limit = 3 /\ args.page = 3
    /\ result.data.pagination.total = 7
    /\ result.data.pagination.hasNextPage = FALSE

\* the ratingAverage the upstream gave the product with this id, {} for none
UpstreamRating(id) ==
    LET e == CHOOSE e \in {Upstream.elements[i] : i \in 1..Len(Upstream.elements)} :
                 e.id = id
    IN e.rating

RatingOf(r) == CHOOSE v \in r : TRUE

\* may a product rated r come before one rated s?
MayPrecede(r, s, sort) ==
    IF r = {} THEN s = {}
    ELSE IF s = {} THEN TRUE
    ELSE IF sort = "rating-asc" THEN RatingOf(r) <= RatingOf(s)
    ELSE RatingOf(r) >= RatingOf(s)

\* C7: with a rating sort the product search returns its page ordered by
\* rating in the requested direction ('rating' and 'rating-desc' highest first,
\* 'rating-asc' lowest first), products without a rating after all rated ones.
C7_RatingSortedUnratedLast ==
    (ListedPage /\ tool = "store_product_search" /\ args.sort \in RatingSorts) =>
        \A i \in 1..Len(result.data.results) :
            \A j \in (i + 1)..Len(result.data.results) :
                MayPrecede(UpstreamRating(result.data.results[i].id),
                           UpstreamRating(result.data.results[j].id), args.sort)

\* the names the listing displays, by position
Displayed ==
    IF tool = "store_product_search" THEN result.data.results ELSE result.data.lines

\* the answer to the follow-up parent fetch, when one was made
ParentAnswer == resps[PrimaryIndex + 1]

\* the follow-up fetch returned the product with this id
Obtained(id) ==
    /\ Len(resps) > PrimaryIndex
    /\ HasElement(ParentAnswer)
    /\ \E k \in 1..Len(ParentAnswer.json.elements) : ParentAnswer.json.elements[k].id = id

ObtainedParent(id) ==
    CHOOSE e \in {ParentAnswer.json.elements[k] : k \in 1..Len(ParentAnswer.json.elements)} :
        e.id = id

NoOwnName(p) == p.name \in {Null, EmptyStr} /\ p.tname \in {Null, EmptyStr}

\* C8: in product search and category product listing an item without a name
\* and translated name that has a parent P is displayed under P's name, or P's
\* translated name when P has no name, if the follow-up fetch returned P; it
\* is displayed as 'Unknown' only when P was not obtained or has neither.
C8_ListedUnderParentName ==
    (ListedPage /\ tool \in {"store_product_search", "store_product_listing"}) =>
        \A i \in 1..Len(Upstream.elements) :
            LET p == Upstream.elements[i]
                shown == Displayed[i].name
            IN (NoOwnName(p) /\ p.parentId # Null) =>
                   IF Obtained(p.parentId)
                   THEN LET parent == ObtainedParent(p.parentId)
                        IN IF parent.name # Null THEN shown = parent.name
                           ELSE IF parent.tname # Null THEN shown = parent.tname
                           ELSE shown = Str("Unknown")
                   ELSE shown \in {Str("Unknown"), p.name}

C8_Witness ==
    /\ ListedPage
    /\ tool = "store_product_listing"
    /\ Len(Upstream.elements) = 2
    /\ Upstream.elements[1] = WithIds(<<VariantOfQ, VariantOfP>>)[1]
    /\ Obtained(ParentP)
    /\ ObtainedParent(ParentP).name = Null
    /\ Displayed[2].name = Str("Blaues Hemd")
    /\ Displayed[1].name = Str("Unknown")

\* the detail handler has finished for a product that names a parent
VariantDetailDone ==
    /\ Done
    /\ tool = "store_product_detail"
    /\ Has(loc, "p")
    /\ loc.p.parentId \notin {Null, EmptyStr}

\* the answer to the parent fetch, the last call of such an invocation
ParentFetch == resps[Len(resps)]
ParentReturned == HasElement(ParentFetch)
TheParent == ParentFetch.json.elements[1]

\* C9: in the detail view a product without a name and translated name whose
\* parent fetch returns a named parent reports the parent's name as its name.
C9_DetailNamedAfterParent ==
    (VariantDetailDone /\ result.kind = "returned"
        /\ loc.p.name = Null /\ loc.p.tname = Null
        /\ ParentReturned /\ TheParent.name # Null)
        => result.data.name = TheParent.name

Lacks(v) == v \in {Null, EmptyStr}

\* what the parent supplies for a field, nothing when it was not obtained
Inherited(f) == IF ParentReturned THEN TheParent[f] ELSE Null
InheritedMedia == IF ParentReturned THEN TheParent.media ELSE <<>>

FieldFrom(own, inherited) ==
    IF ~Lacks(own) THEN own ELSE IF ~Lacks(inherited) THEN inherited ELSE Null

\* C10: in the detail view of a variant each of description, images,
\* manufacturer and category name is taken from the variant when the variant
\* has it and from the parent when the variant lacks it, each field on its
\* own; when the parent fetch fails or returns nothing the fields the variant
\* lacks are null (images: empty) and the detail result is still returned.
C10_FallbackPerField ==
    VariantDetailDone =>
        LET p == loc.p
            description == FieldFrom(p.description, Inherited("description"))
            media == IF p.media # <<>> THEN p.media ELSE InheritedMedia
            ownCategory == IF p.catName # Null THEN p.catName ELSE p.catTName
            parentCategory == IF Inherited("catName") # Null
                              THEN Inherited("catName") ELSE Inherited("catTName")
        IN /\ result.kind = "returned"
           /\ result.isError = FALSE
           /\ result.data.id = p.id
           /\ result.data.description =
                  IF description = Null THEN Null ELSE StripTags(description)
           /\ result.data.manufacturer =
                  FieldFrom(p.manufacturer, Inherited("manufacturer"))
           /\ result.data.images =
                  Compact([i \in 1..Len(media) |-> ImageUrl(media[i], BaseShopUrl(args))])
           /\ result.data.categoryName =
                  IF ownCategory # Null THEN ownCategory ELSE parentCategory

C10_Witness ==
    /\ VariantDetailDone
    /\ ParentReturned
    /\ loc.p.description = HtmlText /\ TheParent.description = PlainText
    /\ loc.p.manufacturer = Null /\ TheParent.manufacturer = Str("Umbrella")
    /\ loc.p.media = <<>> /\ TheParent.media = <<AbsoluteUrl>>
    /\ loc.p.catName = Str("Shirts") /\ TheParent.catName = Str("Tops")
    /\ result.data.description = <<"S", "o", "f", "t">>
    /\ result.data.manufacturer = Str("Umbrella")
    /\ result.data.images = <<AbsoluteUrl>>
    /\ result.data.categoryName = Str("Shirts")

\* s with every span <[^>]*> removed: a '<' opens a span only when a '>'
\* follows it somewhere; every character outside a span is kept
RECURSIVE SpansRemoved(_)
SpansRemoved(s) ==
    IF s = <<>> THEN <<>>
    ELSE IF Head(s) = "<" /\ \E j \in 2..Len(s) : s[j] = ">"
         THEN LET close == CHOOSE j \in 2..Len(s) :
                               s[j] = ">" /\ \A k \in 2..(j - 1) : s[k] # ">"
              IN SpansRemoved(SubSeq(s, close + 1, Len(s)))
         ELSE <<Head(s)>> \o SpansRemoved(Tail(s))

\* C11: the description of the product detail output is the upstream
\* description with every span <[^>]*> removed and every other character kept
\* in order, text after a '<' that is never closed included.
C11_DescriptionSpansRemoved ==
    (Done /\ tool = "store_product_detail" /\ result.kind = "returned"
        /\ Has(loc, "p") /\ ~Lacks(loc.p.description))
        => result.data.description = SpansRemoved(loc.p.description)

RECURSIVE NoTrailingSlashes(_)
NoTrailingSlashes(s) ==
    IF s # <<>> /\ s[Len(s)] = "/" THEN NoTrailingSlashes(SubSeq(s, 1, Len(s) - 1)) ELSE s

RECURSIVE NoLeadingSlashes(_)
NoLeadingSlashes(s) ==
    IF s # <<>> /\ Head(s) = "/" THEN NoLeadingSlashes(Tail(s)) ELSE s

\* the base, one slash, store-api, one slash, the path
OneSlashUrl(base, path) ==
    NoTrailingSlashes(base) \o <<"/">> \o <<"s", "t", "o", "r", "e", "-", "a", "p", "i">>
        \o <<"/">> \o NoLeadingSlashes(path)

\* the base URL the invocation was given, "" when none
GivenBase == IF args.creds.shopUrl = Null THEN EmptyStr ELSE args.creds.shopUrl

EndsInSlashes(s) == Len(s) >= 2 /\ s[Len(s)] = "/" /\ s[Len(s) - 1] = "/"
BeginsWithSlashes(s) == Len(s) >= 2 /\ s[1] = "/" /\ s[2] = "/"

\* C12 as stated: for every base URL, with any number of trailing slashes,
\* and every path, with any number of leading slashes, the URL requested is
\* base/store-api/path with exactly one slash on either side of 'store-api'.
C12_OneSlashForEveryInput ==
    ~Idle => \A i \in 1..Len(calls) :
                 calls[i].url = OneSlashUrl(GivenBase, calls[i].path)

\* C12, amended: for every base URL that ends in at most one slash and every
\* path that begins with at most one slash the URL requested is
\* base/store-api/path with exactly one slash on either side of 'store-api';
\* only one trailing and one leading slash are stripped.
C12_OneSlashUpToOneStripped ==
    ~Idle => \A i \in 1..Len(calls) :
                 (~EndsInSlashes(GivenBase) /\ ~BeginsWithSlashes(calls[i].path)) =>
                     calls[i].url = OneSlashUrl(GivenBase, calls[i].path)

C12_Witness ==
    /\ tool = ClientTool
    /\ Done
    /\ args.creds.shopUrl = ShopUrl
    /\ args.path = <<"/", "context">>
    /\ calls[1].url = ShopNoSlash \o StoreApi \o Str("context")

CredentialHeaders == {"swAccessKey", "swContextToken", "swLanguageId"}

\* the header value for a credential: the credential, "" when it is absent
HeaderFor(credential) == IF credential = Null THEN EmptyStr ELSE credential

\* C13: every upstream request of an invocation carries Content-Type and
\* Accept application/json and the three credential headers; a credential
\* header is never omitted, is the empty string when the credential is absent
\* and has the same value on every request of the invocation.
C13_HeadersOnEveryRequest ==
    ~Idle => \A i \in 1..Len(calls) :
        LET h == calls[i].headers
        IN /\ h.contentType = Str("application/json")
           /\ h.accept = Str("application/json")
           /\ CredentialHeaders \subseteq DOMAIN h
           /\ \A f \in CredentialHeaders : h[f] # Null
           /\ h.swAccessKey = HeaderFor(args.creds.swAccessKey)
           /\ h.swContextToken = HeaderFor(args.creds.swContextToken)
           /\ IF tool = ClientTool
              THEN h.swLanguageId = HeaderFor(args.creds.swLanguageId)
              ELSE h.swLanguageId \in {args.creds.swLanguageId, DefaultLanguageId}
           /\ h = calls[1].headers

C13_Witness ==
    /\ tool = "store_product_search"
    /\ Len(calls) = 3
    /\ args.creds = NoCreds
    /\ calls[3].headers.swAccessKey = EmptyStr
    /\ calls[3].headers.swContextToken = EmptyStr
    /\ calls[3].headers = calls[1].headers

SuccessStatus(st) == st \in 200..299

\* C14: StoreApiClient.request fails on every non-success status with an
\* error whose message carries the numeric status, the status text and the
\* raw body text; on 204 it returns an empty object without parsing a body;
\* on every other success status it returns the parsed JSON body.
C14_ResponseNormalisedByStatus ==
    (Done /\ tool = ClientTool /\ resps[1].kind = "http") =>
        LET r == resps[1]
        IN IF ~SuccessStatus(r.status)
           THEN /\ result.kind = "thrown"
                /\ Includes(result.message, Digits(r.status))
                /\ Includes(result.message, r.statusText)
                /\ Includes(result.message, r.bodyText)
           ELSE IF r.status = 204
           THEN result = Resolved(EmptyObj)
           ELSE r.json # BadJson => result = Resolved(r.json)

C14_Witness ==
    /\ Done
    /\ tool = ClientTool
    /\ resps[1].kind = "http"
    /\ resps[1].status = 204
    /\ resps[1].json = BadJson
    /\ result = Resolved(EmptyObj)

\* a successful answer that holds no record
ZeroRecords(resp) ==
    /\ resp.kind = "http"
    /\ SuccessStatus(resp.status)
    /\ \/ resp.status = 204
       \/ /\ resp.json \notin {NoJson, BadJson}
          /\ IF Has(resp.json, "orders")
             THEN ~Has(resp.json.orders, "elements") \/ resp.json.orders.elements = <<>>
             ELSE ~Has(resp.json, "elements") \/ resp.json.elements = <<>>

\* identifier resolution searched and came back with nothing
ResolutionNotFound ==
    /\ Resolving
    /\ ~CanonicalId(args.productId)
    /\ Len(resps) >= 1
    /\ ~HasElement(resps[1])

\* the position of the handler's own lookup among its calls
LookupIndex ==
    IF tool = "store_product_search" THEN 2
    ELSE IF Resolving /\ ~CanonicalId(args.productId) THEN 2
    ELSE 1

LookupEmpty ==
    /\ ~ResolutionNotFound
    /\ Len(resps) >= LookupIndex
    /\ ZeroRecords(resps[LookupIndex])

LookupTools ==
    {"store_product_detail", "store_product_reviews", "store_product_search",
     "store_product_listing", "store_order_list"}

\* C15: not-found outcomes are non-error results: when identifier resolution
\* returns not-found, or the product, review, listing or order lookup returns
\* zero records, the handler returns a text result that is not flagged
\* isError.
C15_NotFoundIsNotAnError ==
    (Done /\ tool \in LookupTools /\ (ResolutionNotFound \/ LookupEmpty)) =>
        /\ result.kind = "returned"
        /\ result.isError = FALSE

\* C16: in store_product_detail and store_product_reviews identifier
\* resolution comes before every other upstream call, and when it returns
\* not-found the handler issues no further upstream call in that invocation.
C16_ResolutionFirstThenNothing ==
    Resolving =>
        /\ ~CanonicalId(args.productId) =>
               /\ calls[1].path = Str("search")
               /\ \A i \in 2..Len(calls) : Len(resps) >= 1 /\ HasElement(resps[1])
               /\ pc = "resolve" => (Len(calls) = 1 /\ resps = <<>>)
        /\ ResolutionNotFound =>
               /\ Done
               /\ Len(calls) = 1
               /\ Len(resps) = 1

C16_Witness ==
    /\ tool = "store_product_detail"
    /\ args.productId = Sku
    /\ ResolutionNotFound
    /\ resps[1] = NetworkFailure
    /\ Done
    /\ Len(calls) = 1

\* the call was answered and the answer is a failure: no response, a
\* non-success status or a body that does not parse
FailedAt(i) ==
    /\ Len(resps) >= i
    /\ \/ resps[i].kind # "http"
       \/ ~SuccessStatus(resps[i].status)
       \/ (resps[i].status # 204 /\ resps[i].json = BadJson)

AnsweredAt(i) == Len(resps) >= i /\ ~FailedAt(i)

ReturnedResult == Done /\ result.kind = "returned" /\ result.isError = FALSE

\* C17: a failed sub-fetch never aborts the primary operation.  When the
\* currency-context fetch, the parent backfill fetch or the parent lookups of
\* the review fallback fail, the handler still returns the result built from
\* the primary fetch, the sub-fetch counting as empty: currency symbol "",
\* name 'Unknown' for an item that needed its parent, no parent data, no
\* parent reviews.
C17_SubFetchFailureDegrades ==
    /\ (tool = "store_product_search" /\ FailedAt(1) /\ AnsweredAt(2) /\ Done) =>
           /\ ReturnedResult
           /\ result.data # NoData =>
                  \A i \in 1..Len(result.data.results) :
                      result.data.results[i].currency = EmptyStr
    /\ (tool \in {"store_product_search", "store_product_listing"}
            /\ FailedAt(PrimaryIndex + 1)) =>
           /\ ReturnedResult
           /\ Len(Displayed) = Len(Upstream.elements)
           /\ \A i \in 1..Len(Upstream.elements) :
                  LET p == Upstream.elements[i]
                  IN /\ Displayed[i].id = p.id
                     /\ Displayed[i].name =
                            IF p.name # Null THEN p.name
                            ELSE IF p.tname # Null THEN p.tname
                            ELSE Str("Unknown")
    /\ (tool = "store_product_detail" /\ FailedAt(LookupIndex + 1) /\ Done) =>
           /\ ReturnedResult
           /\ result.data.currency = EmptyStr
    /\ (tool = "store_product_detail" /\ FailedAt(LookupIndex + 2)) =>
           /\ ReturnedResult
           /\ result.data.id = loc.p.id
           /\ result.data.manufacturer = FieldFrom(loc.p.manufacturer, Null)
           /\ result.data.categoryName =
                  IF loc.p.catName # Null THEN loc.p.catName ELSE loc.p.catTName
    /\ (tool = "store_product_reviews"
            /\ (FailedAt(LookupIndex + 1) \/ FailedAt(LookupIndex + 2))) =>
           /\ ReturnedResult
           /\ result.text = Str("No reviews found for product ") \o args.productId \o Str(".")

C17_Witness ==
    /\ tool = "store_product_search"
    /\ Done
    /\ FailedAt(1) /\ AnsweredAt(2) /\ FailedAt(3)
    /\ Upstream.elements = WithIds(<<Named, VariantOfP>>)
    /\ Displayed[1].name = Str("Tee")
    /\ Displayed[2].name = Str("Unknown")
    /\ Displayed[2].currency = EmptyStr

\* the search request of a store_product_search invocation, once issued
SearchIssued == tool = "store_product_search" /\ Len(calls) >= 2
SearchRequest == calls[2].body

\* C18: the search request carries no filter when neither minPrice nor
\* maxPrice is given; otherwise it carries exactly one range filter on price
\* whose parameters hold gte = minPrice iff minPrice is given and lte =
\* maxPrice iff maxPrice is given, a bound of 0 counting as given.
C18_PriceRangeFilter ==
    SearchIssued =>
        IF args.minPrice = {} /\ args.maxPrice = {}
        THEN SearchRequest.filter = {}
        ELSE /\ Cardinality(SearchRequest.filter) = 1
             /\ \A filters \in SearchRequest.filter :
                    /\ Len(filters) = 1
                    /\ filters[1].type = "range"
                    /\ filters[1].field = "price"
                    /\ filters[1].parameters.gte = args.minPrice
                    /\ filters[1].parameters.lte = args.maxPrice

C18_Witness ==
    /\ SearchIssued
    /\ Done
    /\ args.minPrice = {0} /\ args.maxPrice = {}
    /\ \E filters \in SearchRequest.filter :
           filters[1].parameters = [gte |-> {0}, lte |-> {}]

\* C19: each caller-facing sort key maps to one fixed upstream order:
\* 'rating' and 'rating-desc' to the same descending rating order,
\* 'rating-asc' to the ascending one, the price and name keys to themselves;
\* an absent sort and 'relevance' send no order at all.
C19_SortKeyMapping ==
    SearchIssued =>
        SearchRequest.order =
            CASE args.sort \in {"price-asc", "price-desc", "name-asc", "name-desc"}
                     -> {args.sort}
              [] args.sort \in {"rating", "rating-desc"} -> {"ratingAverage-desc"}
              [] args.sort = "rating-asc" -> {"ratingAverage-asc"}
              [] args.sort \in {"relevance", Absent} -> {}

C19_Witness ==
    /\ SearchIssued
    /\ Done
    /\ args.sort = "rating"
    /\ SearchRequest.order = {"ratingAverage-desc"}

ListingTool == tool \in {"store_product_search", "store_product_listing"}

\* the primary fetch of a listing was answered with at least one item
PrimaryListed == Len(resps) >= PrimaryIndex /\ HasElement(resps[PrimaryIndex])

\* the parentIds of the listed items that have no name of their own
WantedParents ==
    {Upstream.elements[i].parentId : i \in
        {k \in 1..Len(Upstream.elements) :
            /\ NoOwnName(Upstream.elements[k])
            /\ Upstream.elements[k].parentId \notin {Null, EmptyStr}}}

\* C20: in one listing invocation (product search, category product listing)
\* at most one follow-up parent fetch is issued, after the primary fetch; its
\* id list is exactly the set of distinct parentIds of the items with neither
\* name nor translated name; none is issued when that set is empty.
C20_ParentFetchBatched ==
    ListingTool =>
        /\ Len(calls) <= PrimaryIndex + 1
        /\ Len(calls) = PrimaryIndex + 1 =>
               LET fetch == calls[PrimaryIndex + 1]
               IN /\ PrimaryListed
                  /\ fetch.method = "POST"
                  /\ fetch.path = Str("product")
                  /\ {fetch.body.ids[i] : i \in 1..Len(fetch.body.ids)} = WantedParents
                  /\ Len(fetch.body.ids) = Cardinality(WantedParents)
                  /\ WantedParents # {}
        /\ (PrimaryListed /\ WantedParents = {}) => Len(calls) = PrimaryIndex
        /\ (PrimaryListed /\ WantedParents # {}) => Len(calls) = PrimaryIndex + 1

C20_Witness ==
    /\ tool = "store_product_listing"
    /\ Done
    /\ PrimaryListed
    /\ Upstream.elements = WithIds(<<VariantOfP, VariantOfP>>)
    /\ Len(calls) = 2
    /\ calls[2].body.ids = <<ParentP>>

Awaiting == pc \notin {"idle", "done"}

\* the most upstream calls one invocation of the running tool issues
CallBound ==
    CASE tool \in {"store_product_detail", "store_product_reviews"} -> 4
      [] tool = "store_product_search" -> 3
      [] tool = "store_product_listing" -> 2
      [] OTHER -> 1

\* C23 as stated: every invocation issues a bounded sequence of upstream
\* calls and then ends; product detail issues at most four calls and every
\* other handler at most three.
C23_FourForDetailThreeForOthers ==
    Len(calls) <= (IF tool = "store_product_detail" THEN 4 ELSE 3)

\* C23, amended: product detail and product reviews issue at most four calls
\* (reviews: resolution search, reviews, parentId lookup, parent reviews),
\* product search at most three, category listing at most two, every other
\* handler one; a handler waits for one call at a time, each response lets
\* it go on, and it ends with every call answered.
C23_BoundedCallsThenEnds ==
    /\ Len(calls) <= CallBound
    /\ Awaiting => (Len(calls) = Len(resps) + 1 /\ ENABLED Next)
    /\ Done => (Len(calls) = Len(resps) /\ result # Pending)

C23_Witness ==
    /\ tool = "store_product_reviews"
    /\ Done
    /\ Len(calls) = 4
    /\ calls[1].path = Str("search")
    /\ calls[4].path = ReviewsPath(ParentP)

PagedTool == tool \in {"store_product_search", "store_order_list"}

\* the limit of the primary request
SentLimit == calls[PrimaryIndex].body.limit

\* the total the handler compares with page * limit
CountedTotal == IF UpstreamHasTotal THEN UpstreamTotal ELSE 0

\* C24: the limit product search and order list send upstream never exceeds 3,
\* and the pagination block of the result reports that same limit and computes
\* hasNextPage with it.
C24_LimitCappedAndReported ==
    PagedTool =>
        /\ Len(calls) >= PrimaryIndex => SentLimit <= LimitCap
        /\ ListedPage =>
               /\ result.data.pagination.limit = SentLimit
               /\ result.data.pagination.hasNextPage
                      = (CountedTotal > args.page * SentLimit)

C24_Witness ==
    /\ tool = "store_order_list"
    /\ ListedPage
    /\ args.limit = 2 /\ args.page = 3
    /\ SentLimit = 2
    /\ UpstreamHasTotal /\ UpstreamTotal = 7
    /\ result.data.pagination.limit = 2
    /\ result.data.pagination.hasNextPage = TRUE

ReviewsTool == tool = "store_product_reviews"

\* the position of the reviews fetch among the calls: after the resolution
\* search when there was one
ReviewsIndex == IF calls[1].path = Str("search") THEN 2 ELSE 1

\* the calls and answers counted from the reviews fetch
FromReviews(seq) == SubSeq(seq, ReviewsIndex, Len(seq))

\* an answer that carries at least one review
HasReviews(resp) == HasElement(resp)

\* the identifier the reviews are asked for
ResolvedProduct == IF ReviewsIndex = 1 THEN args.productId ELSE resps[1].json.elements[1].id

\* the parentId the lookup answered with, Null when it found none or failed
LookedUpParent(resp) ==
    IF HasElement(resp) /\ Has(resp.json.elements[1], "parentId")
    THEN resp.json.elements[1].parentId
    ELSE Null

\* C25: store_product_reviews fetches the reviews of the resolved product
\* first; only when that answer holds no review does it look up the product's
\* parentId, and only when there is one does it fetch the parent's reviews and
\* use them; with still no reviews, or a failed fallback, the result is the
\* non-error 'No reviews found' text; a failed first reviews fetch gives a
\* result flagged isError.
C25_ReviewsCallProtocol ==
    (ReviewsTool /\ Len(calls) >= ReviewsIndex /\ (ReviewsIndex = 2 => Len(resps) >= 1)) =>
        LET c == FromReviews(calls)
            r == FromReviews(resps)
        IN /\ c[1].path = ReviewsPath(ResolvedProduct)
           /\ Len(c) >= 2 =>
                  /\ Request(r[1]).threw = FALSE /\ ~HasReviews(r[1])
                  /\ c[2].path = Str("product")
                  /\ c[2].body.ids = <<ResolvedProduct>>
           /\ Len(c) >= 3 =>
                  /\ Truthy(LookedUpParent(r[2]))
                  /\ c[3].path = ReviewsPath(LookedUpParent(r[2]))
           /\ Len(c) <= 3
           /\ Done =>
                  /\ Len(r) = Len(c)
                  /\ Request(r[1]).threw => (Len(c) = 1 /\ result = ReviewsFailed(args))
                  /\ HasReviews(r[1]) =>
                         (Len(c) = 1 /\ result.isError = FALSE
                          /\ result.data = [reviews |-> r[1].json.elements])
                  /\ (~Request(r[1]).threw /\ ~HasReviews(r[1])) =>
                         /\ Len(c) >= 2
                         /\ Truthy(LookedUpParent(r[2])) <=> Len(c) = 3
                         /\ (Len(c) = 3 /\ HasReviews(r[3])) =>
                                (result.isError = FALSE
                                 /\ result.data = [reviews |-> r[3].json.elements])
                         /\ (Len(c) = 2 \/ ~HasReviews(r[3])) => result = ReviewsNone(args)

C25_Witness ==
    /\ ReviewsTool
    /\ Done
    /\ ReviewsIndex = 1
    /\ Len(calls) = 3
    /\ resps[1].json = [elements |-> <<>>]
    /\ resps[3].json = [elements |-> <<ParentReview(1)>>]
    /\ result.data = [reviews |-> <<ParentReview(1)>>]

\* the upstream answered with a success status and, unless it was 204, a
\* JSON body
Accepted(resp) == resp.kind = "http" /\ ResponseOk(resp) /\ resp.json # BadJson

\* C27: whenever the upstream accepts the add-to-cart request with a success
\* status (any 2xx, 204 No Content and a body without a lineItems list
\* included), store_cart_add returns a non-error success result; it reports
\* failure only when the upstream call failed.
C27_AcceptedAddIsSuccess ==
    (tool = "store_cart_add" /\ Done) =>
        /\ result.kind = "returned"
        /\ Accepted(resps[1]) => result.isError = FALSE
        /\ result.isError => Request(resps[1]).threw

\* C28: in the product search and order list results the reported pagination
\* fields agree: hasNextPage = (total > page * limit) for the values reported,
\* also when the upstream response carries no total and for every page number
\* the schema accepts, zero and negative included.
C28_ReportedFieldsAgree ==
    (PagedTool /\ ListedPage) =>
        LET pagination == result.data.pagination
        IN pagination.hasNextPage
               = (pagination.total > pagination.page * pagination.limit)

HandlerTool == tool \notin {"none", ClientTool}

\* C29: for every tool handler, a swLanguageId supplied by the caller is the
\* sw-language-id header of every upstream request of the invocation; the
\* default language identifier is used only when the caller supplies none.
C29_SuppliedLanguageIsSent ==
    HandlerTool =>
        \A i \in 1..Len(calls) :
            calls[i].headers.swLanguageId
                = (IF Truthy(args.creds.swLanguageId)
                   THEN args.creds.swLanguageId
                   ELSE DefaultLanguageId)

\* a detail view was returned for the product loc.p
DetailReturned ==
    /\ tool = "store_product_detail"
    /\ Done
    /\ result.kind = "returned"
    /\ result.data # NoData

\* the products whose options the view aggregates: the siblings (the
\* children of the parent that was obtained) or the own children, and the
\* product itself
OptionSources ==
    LET p == loc.p
        variants == IF ~Lacks(p.parentId)
                    THEN IF ParentReturned THEN TheParent.children.items ELSE <<>>
                    ELSE p.children.items
    IN Append(variants, p)

OptionsFound ==
    UNION {{OptionSources[i].options.items[k] :
               k \in 1..Len(OptionSources[i].options.items)} :
           i \in 1..Len(OptionSources)}

GroupName(o) == IF ~Lacks(o.group) THEN o.group ELSE o.gtname
ValueName(o) == IF ~Lacks(o.name) THEN o.name ELSE o.tname
Complete(o) == ~Lacks(GroupName(o)) /\ ~Lacks(ValueName(o))

ValuesFound(group) ==
    {ValueName(o) : o \in {x \in OptionsFound : Complete(x) /\ GroupName(x) = group}}

\* C26: availableOptions of the detail view maps each option group name to
\* the duplicate-free set of option values found on the product itself and on
\* all its siblings (a variant whose parent fetch succeeded) or on all its own
\* children (a parent); an option counts only with both its group name and
\* its value present, and every group listed has at least one value.
C26_OptionsOfProductAndVariants ==
    DetailReturned =>
        LET available == result.data.availableOptions
        IN /\ {available[i].group : i \in 1..Len(available)}
                  = {GroupName(o) : o \in {x \in OptionsFound : Complete(x)}}
           /\ \A i, j \in 1..Len(available) :
                  available[i].group = available[j].group => i = j
           /\ \A i \in 1..Len(available) :
                  LET values == available[i].values
                  IN /\ Len(values) >= 1
                     /\ {values[k] : k \in 1..Len(values)} = ValuesFound(available[i].group)
                     /\ Len(values) = Cardinality(ValuesFound(available[i].group))

\* the sessions opened and not yet closed
OpenSessions == {sessionId \in DOMAIN connections : connections[sessionId] = "open"}

\* C30: for every interleaving of SSE connects, connection closes and POST
\* /message requests the registry holds exactly the sessions that were opened
\* and not yet closed; a posted message is handed to a transport only if its
\* sessionId names such a session (and then to that session's transport); a
\* request without sessionId is answered 400, one naming an unknown or already
\* closed session 404, and neither changes the registry.
C30_RegistryHoldsOpenSessions ==
    /\ DOMAIN transports = OpenSessions
    /\ \A sessionId \in DOMAIN transports :
           transports[sessionId] = SseTransport(sessionId)
    /\ posted # NoPost =>
           LET answer == posted.answer
           IN /\ answer.handledBy # NoTransport <=> posted.wasOpen
              /\ posted.wasOpen =>
                     answer.handledBy = SseTransport(posted.sessionId)
              /\ Falsy(posted.sessionId) => answer.status = 400
              /\ (~Falsy(posted.sessionId) /\ ~posted.wasOpen) => answer.status = 404

C30_Witness ==
    /\ connections = MapSet(MapSet(<<>>, SessionId(1), "closed"), SessionId(2), "open")
    /\ DOMAIN transports = {SessionId(2)}
    /\ posted # NoPost
    /\ posted.sessionId = SessionId(1)
    /\ posted.wasOpen = FALSE
    /\ posted.answer.status = 404

-----------------------------------------------------------------------------
(* Determinism of the product detail *)

\* the earlier, ended run of store_product_detail kept beside the running one
EarlierRun == others[1]

\* a second run of store_product_detail has ended after an earlier one
RepeatedDetail ==
    /\ tool = "store_product_detail"
    /\ Done
    /\ others # <<>>
    /\ EarlierRun.tool = "store_product_detail"
    /\ EarlierRun.pc = "done"

-----------------------------------------------------------------------------
(* Independence of concurrent invocations *)

\* the invocations in progress or ended: the running one and the suspended
Invocations == (IF Idle THEN <<>> ELSE <<Running>>) \o others

\* the requests and the result of an invocation of store_cart_get that has
\* received the responses rs, nothing else running
CartGetAlone(a, rs) ==
    [calls |-> <<HttpGet(Client(a, DefaultLanguageId), Str("checkout/cart"))>>,
     result |-> IF rs = <<>> THEN Pending ELSE CartGetResult(Request(rs[1]))]

\* store_product_reviews run alone from the await point `at`, with the
\* resolved id, the requests cs sent so far and the responses rs to come
RECURSIVE ReviewsFrom(_, _, _, _, _)
ReviewsFrom(a, at, resolvedId, cs, rs) ==
    IF rs = <<>> THEN [calls |-> cs, result |-> Pending]
    ELSE LET out == Request(Head(rs))
             client == Client(a, LanguageOrDefault(a))
             ended(res) == [calls |-> cs, result |-> res]
             next(to, id, c) == ReviewsFrom(a, to, id, Append(cs, c), Tail(rs))
         IN CASE at = "resolve" ->
                     IF Falsy(ResolveResult(out))
                     THEN ended(Returned(FALSE, Str("Product not found: ") \o a.productId,
                                         NoData))
                     ELSE next("reviews", ResolveResult(out),
                               Post(client, ReviewsPath(ResolveResult(out)),
                                    ReviewsBody(a)))
              [] at = "reviews" ->
                     IF out.threw THEN ended(ReviewsFailed(a))
                     ELSE IF Len(Elements(out.value)) > 0
                     THEN ended(ReviewsResult(a, Elements(out.value)))
                     ELSE next("parent-id", resolvedId,
                               Post(client, Str("product"),
                                    [ids |-> <<resolvedId>>,
                                     includes |-> "product:parentId"]))
              [] at = "parent-id" ->
                     IF Truthy(FallbackParentId(out))
                     THEN next("parent-reviews", resolvedId,
                               Post(client, ReviewsPath(FallbackParentId(out)),
                                    ReviewsBody(a)))
                     ELSE ended(ReviewsNone(a))
              [] at = "parent-reviews" ->
                     ended(ReviewsResult(a, IF out.threw THEN <<>>
                                            ELSE Elements(out.value)))

ReviewsAlone(a, rs) ==
    LET client == Client(a, LanguageOrDefault(a))
    IN IF IsUuid(a.productId)
       THEN ReviewsFrom(a, "reviews", a.productId,
                        <<Post(client, ReviewsPath(a.productId), ReviewsBody(a))>>, rs)
       ELSE ReviewsFrom(a, "resolve", Null,
                        <<Post(client, Str("search"), ResolveBody(a.productId))>>, rs)

\* what the invocation does when nothing else runs beside it
Alone(inv) ==
    IF inv.tool = "store_cart_get" THEN CartGetAlone(inv.args, inv.resps)
    ELSE ReviewsAlone(inv.args, inv.resps)

\* the request carries the credentials of the invocation that issued it
CarriesCredentialsOf(inv, c) ==
    /\ c.headers.swAccessKey = OrElse(inv.args.creds.swAccessKey, EmptyStr)
    /\ c.headers.swContextToken = OrElse(inv.args.creds.swContextToken, EmptyStr)
    /\ c.url = Url(inv.args.creds, c.path)

\* C22: concurrent invocations are independent.  For every interleaving of
\* two invocations (store_cart_get and store_product_reviews, with the same
\* or different credentials) every request carries the access key, the
\* context token and the shop URL of the invocation that issued it, and the
\* requests each invocation sends and the result it returns are those it
\* produces when run alone against the same responses.
C22_InvocationsAreIndependent ==
    \A n \in 1..Len(Invocations) :
        LET inv == Invocations[n]
        IN /\ \A i \in 1..Len(inv.calls) : CarriesCredentialsOf(inv, inv.calls[i])
           /\ inv.calls = Alone(inv).calls
           /\ inv.result = Alone(inv).result

\* store_cart_get has ended while store_product_reviews, invoked with other
\* credentials, is suspended at its fourth request
C22_Witness ==
    /\ Done
    /\ tool = "store_cart_get"
    /\ args.creds = NoCreds
    /\ result.kind = "returned"
    /\ others # <<>>
    /\ others[1].tool = "store_product_reviews"
    /\ others[1].args.creds = FullCreds
    /\ others[1].pc = "parent-reviews"
    /\ Len(others[1].calls) = 4
    /\ others[1].result = Pending

====
